---- MODULE Spec2Model ----
(***************************************************************************)
(* Model of the Aviadata Twitter bot (src/bot.py): the SQLite post log and *)
(* bot-state table, the schedule/dedup engine (execute_scheduled_post,     *)
(* verificar_posts_pendientes, verificar_nuevo_mes), the publisher         *)
(* (send_tweet) and the callers that can run concurrently: the two         *)
(* APScheduler jobs and a forced execution (/force, tools/force_tweet.py). *)
(* Every store operation opens its own connection, so a step of a process  *)
(* is one store operation or one external call with the code around it.    *)
(* A behaviour either lets the operations overlap (overlap = TRUE, with an  *)
(* environment that does not fail or change), or runs them one at a time    *)
(* under store, backend and publisher failures and a changing environment. *)
(* SpecStart follows main() from process start to the first fire of each   *)
(* timer; SpecText follows the texts through the formatters and send_tweet,*)
(* and the rankings and month arithmetic of the formatters; SpecStore      *)
(* follows the two tables row by row and the status tool's report          *)
(* (src/tools/status.py); SpecHttp follows the requests to the HTTP        *)
(* endpoints and their responses; SpecDriver follows the two timer jobs    *)
(* alone, with the stored months the rollover checks have replaced.        *)
(***************************************************************************)
EXTENDS Integers, Sequences, FiniteSets, Bags, TLC

None == "None"

\* ------------------------------------------------------------------ bounds
\* Number of schedule entries modelled (a prefix of CRONOGRAMA_POSTS).
MaxEntries == 2
\* datetime.now().day ranges over 1..MaxDay.
MaxDay == 2
\* Total number of environment failures (store I/O errors, backend fetches
\* without usable data, failing create_tweet calls) in one behaviour.
MaxFaults == 1

\* The months the backend can report as mes_maximo.
Months == {"2025-09", "2025-10"}

\* Calendar order of the "YYYY-MM" strings above (year * 12 + month).
MonthOrd(m) ==
    CASE m = "2025-09" -> 2025 * 12 + 9
      [] m = "2025-10" -> 2025 * 12 + 10
      [] OTHER -> 0

\* ------------------------------------------------------- static configuration
CRONOGRAMA_POSTS ==
    << [dia |-> 0,  tipo |-> "resumen_mensual"],
       [dia |-> 2,  tipo |-> "top_aerolineas"],
       [dia |-> 4,  tipo |-> "rutas_transitadas"],
       [dia |-> 6,  tipo |-> "aeropuertos_activos"],
       [dia |-> 8,  tipo |-> "destinos_internacionales"],
       [dia |-> 10, tipo |-> "evolucion_historica"],
       [dia |-> 12, tipo |-> "ocupacion_promedio"],
       [dia |-> 14, tipo |-> "comparativa_aeropuertos"],
       [dia |-> 16, tipo |-> "records_curiosidades"],
       [dia |-> 18, tipo |-> "aerolineas_inusuales"],
       [dia |-> 20, tipo |-> "comparativa_mensual"],
       [dia |-> 22, tipo |-> "historial_vuelos_mes"],
       [dia |-> 24, tipo |-> "promedios_clase"],
       [dia |-> 26, tipo |-> "recap_grafico"] >>

\* The entries of the schedule that the model keeps, in the dict's order.
Cronograma ==
    SubSeq(CRONOGRAMA_POSTS, 1,
           IF MaxEntries < Len(CRONOGRAMA_POSTS) THEN MaxEntries
           ELSE Len(CRONOGRAMA_POSTS))

NumEntries == Len(Cronograma)
ScheduleDays == {Cronograma[i].dia : i \in 1..NumEntries}

\* CRONOGRAMA_POSTS.get(dia): the entry's type, or None for a day without one.
PostConfig(dia) ==
    IF dia \in ScheduleDays
    THEN (CHOOSE i \in 1..NumEntries : Cronograma[i].dia = dia)
    ELSE 0

TipoDe(dia) == IF PostConfig(dia) = 0 THEN None ELSE Cronograma[PostConfig(dia)].tipo

Slot(dia, mes) == [tipo |-> TipoDe(dia), mes |-> mes, dia |-> dia]
Slots == {Slot(d, m) : d \in ScheduleDays, m \in Months}

\* ------------------------------------------------------------------- state
VARIABLES
    tweets_log,    \* table tweets_log: the bag of its rows (id and timestamps left out)
    bot_state,     \* table bot_state: key -> value, one row per key
    twitter_api,   \* the tweepy client, or None when its setup failed
    twitter,       \* the posts created at the social-media API: a bag of slots
    api_mes,       \* the backend's mes_maximo
    today,         \* datetime.now().day
    faults,        \* environment failures so far, by kind
    overlap,       \* whether the operations of this behaviour may overlap
    pc,            \* position of each process (overlapping operations)
    arg,           \* (dia, mes) of each process's execute_scheduled_post call
    tick,          \* locals of the running catch-up tick (overlapping operations)
    retry,         \* the last catch-up tick that read a month: the month, the days
                   \* whose attempt failed, and the days failed by the tick
                   \* before it (for the same month) that it attempted again
    acked,         \* slots whose success row send_tweet has written
    last,          \* what the last operation did and observed
    boot,          \* main(): where the startup is, and what it has set up
    io             \* a text-handling call: its input and its results (or, for
                   \* the timer jobs alone, the stored months they have replaced)

vars == << tweets_log, bot_state, twitter_api, twitter, api_mes, today, faults,
           overlap, pc, arg, tick, retry, acked, last, boot, io >>

Procs == {"catchup", "rollover", "force"}

StateKey == "current_publishing_month"

\* Failures of the store (a lookup, an INSERT, a state read or write), of the
\* backend (no usable data) and of the social-media API (create_tweet).
FaultKinds == {"store", "backend", "api"}

NoArg == [dia |-> 0, mes |-> None]
\* What an operation did: the month it worked with (None when it got none), the
\* days for which it called execute_scheduled_post, for which it fetched from
\* the backend, and for which it called create_tweet; whether it ran
\* verificar_nuevo_mes, and whether an error left it.
Did(op, mes, called, fetched, sent, checked, raised) ==
    [op |-> op, mes |-> mes, called |-> called, fetched |-> fetched, sent |-> sent,
     checked |-> checked, raised |-> raised]

NoCall == Did("none", None, {}, {}, {}, FALSE, FALSE)
NoTick == [mes |-> None, dia_actual |-> 0, idx |-> 0]
NoRetry == [mes |-> None, failed |-> {}, retried |-> {}]

\* The five credentials validate_credentials requires.
Credentials == {"TWITTER_API_KEY", "TWITTER_API_SECRET", "TWITTER_ACCESS_TOKEN",
                "TWITTER_ACCESS_SECRET", "TWITTER_BEARER_TOKEN"}

\* os.getenv(name): None for a variable that is not set, or its value, a string
\* (a sequence of characters).
Unset == [set |-> FALSE, value |-> << >>]

EnvValue(v) == [set |-> TRUE, value |-> v]

\* main() is where pc says, with the environment it was started in (the five
\* credentials, and whether AVIADATA_API_URL is set), what it has set up so far
\* (the bot, the scheduler with its two interval jobs, the HTTP server), the
\* startup rollover checks begun, the hours since the scheduler was started, the
\* jobs whose timer has fired, and whether one fired during the startup check.
Startup(pc_, creds, url) ==
    [pc |-> pc_, creds |-> creds, url |-> url, bot |-> FALSE, scheduler |-> FALSE,
     http |-> FALSE, checks |-> 0, now |-> 0, fired |-> {}, overlapped |-> FALSE]

\* main() has validated the credentials, built the bot, started the scheduler,
\* run the startup check and started the HTTP server.
Booted == [Startup("serving", [c \in Credentials |-> EnvValue(<< "k" >>)], TRUE)
             EXCEPT !.bot = TRUE, !.scheduler = TRUE, !.http = TRUE, !.checks = 1]

\* No text-handling call.
NoIO == [fn |-> "none"]

\* ------------------------------------------------------- persistence store
\* The row log_tweet inserts.
Row(status, tipo_post, mes_relacionado, dia_cronograma, tweet_id, error_message) ==
    [status |-> status, tipo_post |-> tipo_post, mes_relacionado |-> mes_relacionado,
     dia_cronograma |-> dia_cronograma, tweet_id |-> tweet_id,
     error_message |-> error_message]

\* An INSERT that is lost.
log_tweet_lost(log, row, ok) == log

\* log_tweet: INSERT of one row; on an I/O error (ok = FALSE) nothing is written.
log_tweet(log, row, ok) == IF ok THEN log (+) SetToBag({row}) ELSE log

\* The rows the SELECT COUNT(*) of check_post_exists counts.
MatchingRows(log, tipo_post, mes_relacionado, dia_cronograma) ==
    {r \in BagToSet(log) :
        /\ r.tipo_post = tipo_post
        /\ r.mes_relacionado = mes_relacionado
        /\ r.dia_cronograma = dia_cronograma
        /\ r.status = "success"}

\* SELECT COUNT(*): the number of matching rows.
CountRows(log, tipo_post, mes_relacionado, dia_cronograma) ==
    LET rows == MatchingRows(log, tipo_post, mes_relacionado, dia_cronograma)
    IN  BagCardinality([r \in rows |-> CopiesIn(r, log)])

\* A gate that never finds a record.
check_post_exists_blind(log, tipo_post, mes_relacionado, dia_cronograma, ok) == FALSE

\* A gate that counts the records of any status.
check_post_exists_any_status(log, tipo_post, mes_relacionado, dia_cronograma, ok) ==
    /\ ok
    /\ \E r \in BagToSet(log) : /\ r.tipo_post = tipo_post
                                /\ r.mes_relacionado = mes_relacionado
                                /\ r.dia_cronograma = dia_cronograma

\* A gate that answers True when the lookup raises.
check_post_exists_closed(log, tipo_post, mes_relacionado, dia_cronograma, ok) ==
    ~ok \/ CountRows(log, tipo_post, mes_relacionado, dia_cronograma) > 0

\* check_post_exists: count > 0, and False when the lookup raises (ok = FALSE).
check_post_exists(log, tipo_post, mes_relacionado, dia_cronograma, ok) ==
    IF ok
    THEN CountRows(log, tipo_post, mes_relacionado, dia_cronograma) > 0
    ELSE FALSE

\* A read that falls back to a month when there is no row.
get_bot_state_default(state, key, ok) ==
    IF ok /\ key \in DOMAIN state THEN state[key] ELSE "2025-09"

\* get_bot_state: the value of the key's row, None without a row or on an error.
get_bot_state(state, key, ok) ==
    IF ok /\ key \in DOMAIN state THEN state[key] ELSE None

\* A plain INSERT that keeps one row per month stored.
set_bot_state_row_per_value(state, key, value, ok) ==
    [k \in (DOMAIN state) \cup {key, value} |-> value]

\* set_bot_state: INSERT OR REPLACE of the key's row; nothing on an error.
set_bot_state(state, key, value, ok) ==
    IF ok
    THEN [k \in (DOMAIN state) \cup {key} |-> IF k = key THEN value ELSE state[k]]
    ELSE state

\* ------------------------------------------------------------ environment
\* The number of failures in a fault record.
Total(f) == f["store"] + f["backend"] + f["api"]

\* Failures the environment may still produce after the failures f: none while
\* operations overlap.
BudgetOf(f) == IF overlap THEN 0 ELSE MaxFaults - Total(f)

\* The outcomes of a call the environment can make fail: TRUE is success.
Outcomes(budget) == IF budget > 0 THEN BOOLEAN ELSE {TRUE}

\* Results of tweepy's create_tweet: a response with data, a response without
\* data, a TweepyException, any other exception.
ApiResults(budget) ==
    IF budget > 0 THEN {"ok", "no_data", "tweepy_error", "other_error"} ELSE {"ok"}

\* The fault record after a call of the given kind that went well or not.
Count(f, kind, ok) == IF ok THEN f ELSE [f EXCEPT ![kind] = @ + 1]

\* get_latest_month: mes_maximo of /aeropuertos/rango-meses, None when the
\* request fails or the field is missing.
get_latest_month(mes_maximo, ok) == IF ok THEN mes_maximo ELSE None

\* ----------------------------------------------------------------- publisher
\* The store and the social network as one call sees and leaves them.
Cur == [log |-> tweets_log, twitter |-> twitter, faults |-> faults, acked |-> acked]

\* The result of a call: the store and network after it, and what happened.
Res(S, ev) == [log |-> S.log, twitter |-> S.twitter, faults |-> S.faults,
               acked |-> S.acked, ev |-> ev]

\* What one execute_scheduled_post call did: how it ended, whether it fetched
\* from the backend, create_tweet's result (None when not called) and the
\* value returned.
Event(dia, mes, result, fetched, api, ret) ==
    [dia |-> dia, mes |-> mes, result |-> result, fetched |-> fetched,
     api |-> api, ret |-> ret]

\* The state after a send_tweet call, create_tweet's result and the value returned.
Sent(log, tw, f, ack, api, ret) ==
    [log |-> log, twitter |-> tw, faults |-> f, acked |-> ack, api |-> api, ret |-> ret]

\* A publisher that records a success whatever create_tweet's result.
SendResult_always_success(S, dia, mes, res, wr_ok) ==
    Sent(log_tweet(S.log, Row("success", TipoDe(dia), mes, dia, << dia, mes, 0 >>, None), TRUE),
         S.twitter, S.faults, S.acked, res, FALSE)

\* send_tweet with a client, given create_tweet's result and whether the INSERT of
\* log_tweet goes through.
SendResult(S, dia, mes, res, wr_ok) ==
    LET tipo_post == TipoDe(dia)
        tweet_id == << dia, mes, CopiesIn(Slot(dia, mes), S.twitter) + 1 >>
    IN  CASE res = "ok" ->
               Sent(log_tweet(S.log, Row("success", tipo_post, mes, dia, tweet_id, None), wr_ok),
                    S.twitter (+) SetToBag({Slot(dia, mes)}),
                    Count(S.faults, "store", wr_ok),
                    IF wr_ok THEN S.acked \cup {Slot(dia, mes)} ELSE S.acked,
                    res, TRUE)
          [] res = "tweepy_error" ->
               Sent(log_tweet(S.log, Row("error", tipo_post, mes, dia, None, "error_msg"), wr_ok),
                    S.twitter,
                    Count(Count(S.faults, "api", FALSE), "store", wr_ok),
                    S.acked, res, FALSE)
          [] OTHER ->
               Sent(S.log, S.twitter, Count(S.faults, "api", FALSE), S.acked, res, FALSE)

\* A publisher that calls create_tweet whether or not there is a client.
send_tweet_unchecked(S, dia, mes) ==
    UNION {
      {SendResult(S, dia, mes, res, wr_ok) :
         wr_ok \in (IF res \in {"ok", "tweepy_error"}
                    THEN Outcomes(BudgetOf(S.faults) - (IF res = "ok" THEN 0 ELSE 1))
                    ELSE {TRUE})} :
      res \in ApiResults(BudgetOf(S.faults)) }

\* send_tweet: every way the call can go.
send_tweet(S, dia, mes) ==
    IF twitter_api = None
    THEN {Sent(S.log, S.twitter, S.faults, S.acked, "not_configured", FALSE)}
    ELSE UNION {
           {SendResult(S, dia, mes, res, wr_ok) :
              wr_ok \in (IF res \in {"ok", "tweepy_error"}
                         THEN Outcomes(BudgetOf(S.faults) - (IF res = "ok" THEN 0 ELSE 1))
                         ELSE {TRUE})} :
           res \in ApiResults(BudgetOf(S.faults)) }

\* ------------------------------------------------------ schedule/dedup engine
\* Due only after its day; due on any day.
DiaVencidoEstricto(dia_cronograma, dia_actual) == dia_cronograma < dia_actual

DiaVencidoSiempre(dia_cronograma, dia_actual) == TRUE

\* Line 996: an entry is due when its day is at most today's day of month.
DiaVencido(dia_cronograma, dia_actual) == dia_cronograma <= dia_actual

\* A new month only when a stored month was read and differs.
NuevoMesSoloCambio(mes_actual, mes_mas_reciente) ==
    mes_actual # None /\ mes_actual # mes_mas_reciente

\* A rollover test that always sees a new month.
NuevoMesSiempre(mes_actual, mes_mas_reciente) == TRUE

\* Line 1025: the rollover test.
NuevoMesDetectado(mes_actual, mes_mas_reciente) == mes_actual # mes_mas_reciente

\* The content types of the schedule.
PostTypes == {CRONOGRAMA_POSTS[i].tipo : i \in 1..Len(CRONOGRAMA_POSTS)}

\* What make_request gives a formatter: None ("null": the request or its decoding
\* failed), a payload without usable entries ("vacio": empty, or all zeros), or
\* usable data ("datos").
Payloads == {"null", "vacio", "datos"}

\* The number of backend requests generate_content_for_post_type makes for a type.
Fetches(tipo_post) ==
    CASE tipo_post \in {"comparativa_aeropuertos", "records_curiosidades",
                        "comparativa_mensual"} -> 2
      [] tipo_post = "recap_grafico" -> 3
      [] OTHER -> 1

\* A content generation whose comparisons make do with the month's own data.
generate_content_current_only(tipo_post, data) == data[1] = "datos"

\* A formatter that renders defaults when it has no data.
generate_content_defaults(tipo_post, data) == TRUE

\* generate_content_for_post_type: whether the formatter of the type returns a
\* text (TRUE) or None, given the results of the type's requests in order.
generate_content_for_post_type(tipo_post, data) ==
    CASE tipo_post \notin PostTypes -> FALSE
      [] tipo_post \in {"comparativa_aeropuertos", "comparativa_mensual"} ->
           data[1] = "datos" /\ data[2] = "datos"
      [] tipo_post = "records_curiosidades" -> data[1] = "datos" \/ data[2] = "datos"
      [] OTHER -> data[1] = "datos"

\* The number of requests of a content generation that gave no usable data.
Unusable(data) == Cardinality({i \in DOMAIN data : data[i] # "datos"})

\* The results the backend can give to n requests, with at most budget of them
\* unusable.
FetchResults(n, budget) ==
    {data \in [1..n -> Payloads] : Unusable(data) <= (IF budget > 0 THEN budget ELSE 0)}

\* execute_scheduled_post after the dedup gate found nothing: the content is
\* generated from the backend's answers and, when there is a text, sent.
Publish(S, dia, mes) ==
    UNION {
      LET S1 == [S EXCEPT !.faults["backend"] = @ + Unusable(data)]
      IN  IF generate_content_for_post_type(TipoDe(dia), data)
          THEN {Res(R, Event(dia, mes, "sent", TRUE, R.api, R.ret)) :
                  R \in send_tweet(S1, dia, mes)}
          ELSE {Res(S1, Event(dia, mes, "no_content", TRUE, None, FALSE))} :
      data \in FetchResults(Fetches(TipoDe(dia)), BudgetOf(S.faults)) }

\* An execution that generates the content before it looks for a success record.
execute_scheduled_post_fetch_first(S, dia, mes) ==
    IF TipoDe(dia) = None
    THEN {Res(S, Event(dia, mes, "no_config", FALSE, None, FALSE))}
    ELSE UNION {
           IF check_post_exists(S.log, TipoDe(dia), mes, dia, look_ok)
           THEN {Res([S EXCEPT !.faults = Count(@, "store", look_ok)],
                     Event(dia, mes, "exists", TRUE, None, TRUE))}
           ELSE Publish([S EXCEPT !.faults = Count(@, "store", look_ok)], dia, mes) :
           look_ok \in Outcomes(BudgetOf(S.faults)) }

\* An execution that publishes without looking for a success record.
execute_scheduled_post_ungated(S, dia, mes) ==
    IF TipoDe(dia) = None
    THEN {Res(S, Event(dia, mes, "no_config", FALSE, None, FALSE))}
    ELSE Publish(S, dia, mes)

\* execute_scheduled_post: every way the call can go.
execute_scheduled_post(S, dia, mes) ==
    IF TipoDe(dia) = None
    THEN {Res(S, Event(dia, mes, "no_config", FALSE, None, FALSE))}
    ELSE UNION {
           IF check_post_exists(S.log, TipoDe(dia), mes, dia, look_ok)
           THEN {Res([S EXCEPT !.faults = Count(@, "store", look_ok)],
                     Event(dia, mes, "exists", FALSE, None, TRUE))}
           ELSE Publish([S EXCEPT !.faults = Count(@, "store", look_ok)], dia, mes) :
           look_ok \in Outcomes(BudgetOf(S.faults)) }

\* An entry of verificar_posts_pendientes' loop that makes no call of
\* execute_scheduled_post: it is not due yet, or the gate found it posted.
Skip(dia, mes, result) == Event(dia, mes, result, FALSE, None, TRUE)

\* A loop that ends at the first entry whose execute_scheduled_post call fails.
RECURSIVE LoopUntilFailure(_, _, _, _)
LoopUntilFailure(idx, S, mes_actual, dia_actual) ==
    IF idx > NumEntries
    THEN {S}
    ELSE LET e == Cronograma[idx]
             note(T, ev) == [log |-> T.log, twitter |-> T.twitter, faults |-> T.faults,
                             acked |-> T.acked, trace |-> Append(S.trace, ev)]
         IN  IF ~DiaVencido(e.dia, dia_actual)
             THEN LoopUntilFailure(idx + 1, note(S, Skip(e.dia, mes_actual, "not_due")),
                                   mes_actual, dia_actual)
             ELSE UNION {
                    IF R.ev.ret
                    THEN LoopUntilFailure(idx + 1, note(R, R.ev), mes_actual, dia_actual)
                    ELSE {note(R, R.ev)} :
                    R \in execute_scheduled_post(S, e.dia, mes_actual) }

\* The loop of verificar_posts_pendientes from entry idx on: every way it can go.
\* S.trace collects what was done for each entry.
RECURSIVE Loop(_, _, _, _)
Loop(idx, S, mes_actual, dia_actual) ==
    IF idx > NumEntries
    THEN {S}
    ELSE LET e == Cronograma[idx]
             note(T, ev) == [log |-> T.log, twitter |-> T.twitter, faults |-> T.faults,
                             acked |-> T.acked, trace |-> Append(S.trace, ev)]
         IN  IF ~DiaVencido(e.dia, dia_actual)
             THEN Loop(idx + 1, note(S, Skip(e.dia, mes_actual, "not_due")),
                       mes_actual, dia_actual)
             ELSE UNION {
                    LET S1 == [S EXCEPT !.faults = Count(@, "store", look_ok)]
                    IN  IF ~check_post_exists(S.log, e.tipo, mes_actual, e.dia, look_ok)
                        THEN UNION {Loop(idx + 1, note(R, R.ev), mes_actual, dia_actual) :
                                      R \in execute_scheduled_post(S1, e.dia, mes_actual)}
                        ELSE Loop(idx + 1, note(S1, Skip(e.dia, mes_actual, "posted")),
                                  mes_actual, dia_actual) :
                    look_ok \in Outcomes(BudgetOf(S.faults)) }

\* The days of a tick's trace whose execute_scheduled_post call returned False.
FailedDays(trace) == {trace[i].dia : i \in {j \in 1..Len(trace) : ~trace[j].ret}}

\* The days of a trace for which execute_scheduled_post was called, for which it
\* fetched from the backend, and for which it called create_tweet.
CalledDays(trace) ==
    {trace[i].dia : i \in {j \in 1..Len(trace) : trace[j].result \notin {"not_due", "posted"}}}

FetchedDays(trace) == {trace[i].dia : i \in {j \in 1..Len(trace) : trace[j].fetched}}

SentDays(trace) ==
    {trace[i].dia : i \in {j \in 1..Len(trace) :
                              trace[j].api \notin {None, "not_configured"}}}

\* A handler without its except clause: the error goes on to the caller.
CatchAll_reraise(raised) == raised

\* "except Exception as e: logger.error(...)" followed by a return: whether an
\* error raised in the try body leaves the function.
CatchAll(raised) == FALSE

\* What an operation with this trace of execute_scheduled_post calls did, f being
\* the failures after it. A failure is an error raised inside a store method, a
\* request or send_tweet, under that function's handler and under the handler of
\* the operation itself.
Summary(op, mes, trace, f) ==
    Did(op, mes, CalledDays(trace), FetchedDays(trace), SentDays(trace),
        op = "rollover", CatchAll(CatchAll(Total(f) > Total(faults))))

\* The store and network become what a call left.
Becomes(R) ==
    /\ tweets_log' = R.log
    /\ twitter' = R.twitter
    /\ faults' = R.faults
    /\ acked' = R.acked

\* ------------------------------------------- operations run one at a time
\* verificar_posts_pendientes, lines 980-1011: the effect of a whole tick.
RunCatchUp ==
    \E rd_ok \in Outcomes(BudgetOf(faults)) :
         LET mes_actual == get_bot_state(bot_state, StateKey, rd_ok)
             S == [log |-> tweets_log, twitter |-> twitter,
                   faults |-> Count(faults, "store", rd_ok), acked |-> acked,
                   trace |-> << >>]
         IN  IF mes_actual = None
             THEN /\ faults' = S.faults
                  /\ last' = Summary("catchup", None, << >>, S.faults)
                  /\ UNCHANGED << tweets_log, twitter, acked, retry >>
             ELSE \E R \in Loop(1, S, mes_actual, today) :
                    /\ Becomes(R)
                    /\ retry' = [mes |-> mes_actual, failed |-> FailedDays(R.trace),
                                 retried |-> IF retry.mes = mes_actual
                                             THEN retry.failed \cap CalledDays(R.trace)
                                             ELSE {}]
                    /\ last' = Summary("catchup", mes_actual, R.trace, R.faults)

\* verificar_posts_pendientes, a whole tick run by its timer.
CatchUp ==
    /\ UNCHANGED << boot, io >>
    /\ ~overlap
    /\ RunCatchUp
    /\ UNCHANGED << bot_state, twitter_api, api_mes, today, overlap, pc, arg, tick >>

\* The store, the network and the bot-state table after verificar_nuevo_mes, the
\* backend month it obtained and its execute_scheduled_post call, if any.
Checked(T, state, mes, trace) ==
    [log |-> T.log, twitter |-> T.twitter, faults |-> T.faults, acked |-> T.acked,
     bot_state |-> state, mes |-> mes, trace |-> trace]

\* A check that stores the new month only when its day-0 post went out.
verificar_nuevo_mes_store_on_success(S, state) ==
    UNION {
      LET mes_mas_reciente == get_latest_month(api_mes, ok)
          f1 == Count(S.faults, "backend", ok)
      IN  IF mes_mas_reciente = None
          THEN {Checked([S EXCEPT !.faults = f1], state, None, << >>)}
          ELSE UNION {
                 LET mes_actual == get_bot_state(state, StateKey, rd_ok)
                     f2 == Count(f1, "store", rd_ok)
                 IN  IF NuevoMesDetectado(mes_actual, mes_mas_reciente)
                     THEN UNION {
                            {Checked(R, IF R.ev.ret
                                        THEN set_bot_state(state, StateKey, mes_mas_reciente,
                                                           wr_ok)
                                        ELSE state,
                                     mes_mas_reciente, << R.ev >>) :
                               R \in execute_scheduled_post(
                                        [S EXCEPT !.faults = Count(f2, "store", wr_ok)],
                                        0, mes_mas_reciente)} :
                            wr_ok \in Outcomes(BudgetOf(f2)) }
                     ELSE {Checked([S EXCEPT !.faults = f2], state, mes_mas_reciente, << >>)} :
                 rd_ok \in Outcomes(BudgetOf(f1)) } :
      ok \in Outcomes(BudgetOf(S.faults)) }

\* verificar_nuevo_mes: every way the check can go from the store and network S
\* and the bot-state table state.
verificar_nuevo_mes(S, state) ==
    UNION {
      LET mes_mas_reciente == get_latest_month(api_mes, ok)
          f1 == Count(S.faults, "backend", ok)
      IN  IF mes_mas_reciente = None
          THEN {Checked([S EXCEPT !.faults = f1], state, None, << >>)}
          ELSE UNION {
                 LET mes_actual == get_bot_state(state, StateKey, rd_ok)
                     f2 == Count(f1, "store", rd_ok)
                 IN  IF NuevoMesDetectado(mes_actual, mes_mas_reciente)
                     THEN UNION {
                            {Checked(R, set_bot_state(state, StateKey, mes_mas_reciente, wr_ok),
                                     mes_mas_reciente, << R.ev >>) :
                               R \in execute_scheduled_post(
                                        [S EXCEPT !.faults = Count(f2, "store", wr_ok)],
                                        0, mes_mas_reciente)} :
                            wr_ok \in Outcomes(BudgetOf(f2)) }
                     ELSE {Checked([S EXCEPT !.faults = f2], state, mes_mas_reciente, << >>)} :
                 rd_ok \in Outcomes(BudgetOf(f1)) } :
      ok \in Outcomes(BudgetOf(S.faults)) }

\* verificar_nuevo_mes, lines 1015-1035: the effect of a whole check.
RunRolloverCheck ==
    \E C \in verificar_nuevo_mes(Cur, bot_state) :
      /\ Becomes(C)
      /\ bot_state' = C.bot_state
      /\ last' = Summary("rollover", C.mes, C.trace, C.faults)

\* verificar_nuevo_mes, a whole check run by its timer.
Rollover ==
    /\ UNCHANGED << boot, io >>
    /\ ~overlap
    /\ RunRolloverCheck
    /\ UNCHANGED << twitter_api, api_mes, today, overlap, pc, arg, tick, retry >>

\* The days a forced execution can name: the schedule's days and one that is not.
ForceDays == ScheduleDays \cup {1}

\* /force and tools/force_tweet.py: execute_scheduled_post(dia, mes) on request.
Force ==
    /\ UNCHANGED << boot, io >>
    /\ ~overlap
    /\ \E dia \in ForceDays, mes \in Months :
         \E R \in execute_scheduled_post(Cur, dia, mes) :
           /\ Becomes(R)
           /\ last' = Summary("force", mes, << R.ev >>, R.faults)
    /\ UNCHANGED << bot_state, twitter_api, api_mes, today, overlap, pc, arg, tick, retry >>

\* get_next_pending_post, lines 1087-1092, from entry idx on: every way the
\* lookups can go. S.pending collects the days appended to the pending list.
RECURSIVE PendingFrom(_, _, _, _)
PendingFrom(idx, S, mes_actual, dia_actual) ==
    IF idx > NumEntries
    THEN {S}
    ELSE LET e == Cronograma[idx]
         IN  IF ~DiaVencido(e.dia, dia_actual)
             THEN PendingFrom(idx + 1, S, mes_actual, dia_actual)
             ELSE UNION {
                    PendingFrom(idx + 1,
                                [faults |-> Count(S.faults, "store", look_ok),
                                 pending |-> IF check_post_exists(tweets_log, e.tipo, mes_actual,
                                                                  e.dia, look_ok)
                                             THEN S.pending
                                             ELSE Append(S.pending, e.dia)],
                                mes_actual, dia_actual) :
                    look_ok \in Outcomes(BudgetOf(S.faults)) }

\* /status: get_next_pending_post, a whole query.
Status ==
    /\ UNCHANGED << boot, io >>
    /\ ~overlap
    /\ \E rd_ok \in Outcomes(BudgetOf(faults)) :
         LET mes_actual == get_bot_state(bot_state, StateKey, rd_ok)
             f1 == Count(faults, "store", rd_ok)
         IN  IF mes_actual = None
             THEN /\ faults' = f1
                  /\ last' = Summary("status", None, << >>, f1)
             ELSE \E P \in PendingFrom(1, [faults |-> f1, pending |-> << >>],
                                       mes_actual, today) :
                    /\ faults' = P.faults
                    /\ last' = Summary("status", mes_actual, << >>, P.faults)
    /\ UNCHANGED << tweets_log, bot_state, twitter_api, twitter, api_mes, today, overlap,
                    pc, arg, tick, retry, acked >>

\* What the first lines of a preview handler leave: the store, the network and
\* the bot-state table, the month the preview goes on with (None: it answers 400),
\* whether verificar_nuevo_mes was run and the execute_scheduled_post call it made.
Previewed(C, mes, f, checked) ==
    [log |-> C.log, twitter |-> C.twitter, faults |-> f, acked |-> C.acked,
     bot_state |-> C.bot_state, mes |-> mes, trace |-> C.trace, checked |-> checked]

\* /preview, lines 1139-1145, and /preview-all, lines 1171-1176: the stored month
\* is read; without one verificar_nuevo_mes is run and the month is read again.
PreviewMonth(S, state) ==
    UNION {
      LET mes_actual == get_bot_state(state, StateKey, rd_ok)
          S1 == [S EXCEPT !.faults = Count(@, "store", rd_ok)]
      IN  IF mes_actual # None
          THEN {Previewed(Checked(S1, state, mes_actual, << >>), mes_actual, S1.faults, FALSE)}
          ELSE UNION {
                 {Previewed(C, get_bot_state(C.bot_state, StateKey, again_ok),
                            Count(C.faults, "store", again_ok), TRUE) :
                    again_ok \in Outcomes(BudgetOf(C.faults))} :
                 C \in verificar_nuevo_mes(S1, state) } :
      rd_ok \in Outcomes(BudgetOf(S.faults)) }

\* The store, network and bot-state table become what a preview handler left.
PreviewDone(op, P, days, f) ==
    /\ tweets_log' = P.log
    /\ twitter' = P.twitter
    /\ acked' = P.acked
    /\ bot_state' = P.bot_state
    /\ faults' = f
    /\ last' = Did(op, P.mes, CalledDays(P.trace), FetchedDays(P.trace) \cup days,
                   SentDays(P.trace), P.checked, CatchAll(CatchAll(Total(f) > Total(faults))))

\* /preview?dia=...: the text of one schedule entry for the publishing month.
Preview ==
    /\ UNCHANGED << boot, io >>
    /\ ~overlap
    /\ \E dia \in ForceDays :
         \E P \in PreviewMonth(Cur, bot_state) :
           IF P.mes = None \/ TipoDe(dia) = None
           THEN PreviewDone("preview", P, {}, P.faults)
           ELSE \E data \in FetchResults(Fetches(TipoDe(dia)), BudgetOf(P.faults)) :
                  PreviewDone("preview", P, {dia},
                              [P.faults EXCEPT !["backend"] = @ + Unusable(data)])
    /\ UNCHANGED << twitter_api, api_mes, today, overlap, pc, arg, tick, retry >>

\* /preview-all, lines 1179-1203, from entry idx on: the failures after the
\* content of every entry was generated, every way the requests can go.
RECURSIVE GenerateAll(_, _)
GenerateAll(idx, f) ==
    IF idx > NumEntries
    THEN {f}
    ELSE UNION {
           GenerateAll(idx + 1, [f EXCEPT !["backend"] = @ + Unusable(data)]) :
           data \in FetchResults(Fetches(Cronograma[idx].tipo), BudgetOf(f)) }

\* /preview-all: the texts of all schedule entries for the publishing month.
PreviewAll ==
    /\ UNCHANGED << boot, io >>
    /\ ~overlap
    /\ \E P \in PreviewMonth(Cur, bot_state) :
         IF P.mes = None
         THEN PreviewDone("preview_all", P, {}, P.faults)
         ELSE \E f \in GenerateAll(1, P.faults) :
                PreviewDone("preview_all", P, ScheduleDays, f)
    /\ UNCHANGED << twitter_api, api_mes, today, overlap, pc, arg, tick, retry >>

\* The calendar day changes.
Clock ==
    /\ UNCHANGED << boot, io >>
    /\ ~overlap
    /\ \E d \in (1..MaxDay) \ {today} : today' = d
    /\ last' = NoCall
    /\ UNCHANGED << tweets_log, bot_state, twitter_api, twitter, api_mes, faults,
                    overlap, pc, arg, tick, retry, acked >>

\* The backend's latest month changes.
BackendMonth ==
    /\ UNCHANGED << boot, io >>
    /\ ~overlap
    /\ \E m \in Months \ {api_mes} : api_mes' = m
    /\ last' = NoCall
    /\ UNCHANGED << tweets_log, bot_state, twitter_api, twitter, today, faults,
                    overlap, pc, arg, tick, retry, acked >>

\* ------------------------------------------------ operations that overlap
\* The two jobs run on APScheduler's thread pool and a forced execution on a
\* request thread (or in the CLI's process): their store operations and
\* external calls interleave.

\* execute_scheduled_post returns to its caller p: the catch-up loop goes on
\* with the next entry, the other callers are done.
Return(p) ==
    /\ arg' = [arg EXCEPT ![p] = NoArg]
    /\ IF p = "catchup"
       THEN /\ tick' = IF tick.idx + 1 > NumEntries THEN NoTick
                       ELSE [tick EXCEPT !.idx = @ + 1]
            /\ pc' = [pc EXCEPT ![p] = IF tick.idx + 1 > NumEntries THEN "idle" ELSE "loop"]
       ELSE /\ pc' = [pc EXCEPT ![p] = "idle"]
            /\ UNCHANGED tick

\* verificar_posts_pendientes, lines 980-989: read the publishing month and the day.
CuStart ==
    /\ UNCHANGED << boot, io >>
    /\ overlap /\ pc["catchup"] = "idle"
    /\ \E rd_ok \in Outcomes(BudgetOf(faults)) :
         LET mes_actual == get_bot_state(bot_state, StateKey, rd_ok)
         IN  /\ faults' = Count(faults, "store", rd_ok)
             /\ mes_actual # None
             /\ tick' = [mes |-> mes_actual, dia_actual |-> today, idx |-> 1]
             /\ pc' = [pc EXCEPT !["catchup"] = "loop"]
    /\ UNCHANGED << tweets_log, bot_state, twitter_api, twitter, api_mes, today,
                    overlap, arg, retry, acked, last >>

\* verificar_posts_pendientes, lines 995-1006: one iteration up to the call of
\* execute_scheduled_post.
CuLoop ==
    /\ UNCHANGED << boot, io >>
    /\ overlap /\ pc["catchup"] = "loop"
    /\ LET e == Cronograma[tick.idx]
       IN  \E look_ok \in Outcomes(BudgetOf(faults)) :
             IF DiaVencido(e.dia, tick.dia_actual)
                /\ ~check_post_exists(tweets_log, e.tipo, tick.mes, e.dia, look_ok)
             THEN /\ arg' = [arg EXCEPT !["catchup"] = [dia |-> e.dia, mes |-> tick.mes]]
                  /\ pc' = [pc EXCEPT !["catchup"] = "exec"]
                  /\ faults' = Count(faults, "store", look_ok)
                  /\ UNCHANGED tick
             ELSE /\ Return("catchup")
                  /\ UNCHANGED faults
    /\ UNCHANGED << tweets_log, bot_state, twitter_api, twitter, api_mes, today,
                    overlap, retry, acked, last >>

\* execute_scheduled_post, lines 936-953: the schedule lookup, the dedup gate and
\* the content generation.
ExecCheck(p) ==
    /\ UNCHANGED << boot, io >>
    /\ overlap /\ pc[p] = "exec"
    /\ \E look_ok \in Outcomes(BudgetOf(faults)) :
         IF TipoDe(arg[p].dia) # None
            /\ ~check_post_exists(tweets_log, TipoDe(arg[p].dia), arg[p].mes, arg[p].dia,
                                  look_ok)
         THEN /\ pc' = [pc EXCEPT ![p] = "send"]
              /\ faults' = Count(faults, "store", look_ok)
              /\ UNCHANGED << arg, tick >>
         ELSE /\ Return(p)
              /\ UNCHANGED faults
    /\ UNCHANGED << tweets_log, bot_state, twitter_api, twitter, api_mes, today,
                    overlap, retry, acked, last >>

\* execute_scheduled_post, lines 955-972: send_tweet and the return.
ExecSend(p) ==
    /\ UNCHANGED << boot, io >>
    /\ overlap /\ pc[p] = "send"
    /\ \E R \in send_tweet(Cur, arg[p].dia, arg[p].mes) : Becomes(R)
    /\ Return(p)
    /\ UNCHANGED << bot_state, twitter_api, api_mes, today, overlap, retry, last >>

\* verificar_nuevo_mes, lines 1016-1020: ask the backend for its latest month.
RoStart ==
    /\ UNCHANGED << boot, io >>
    /\ overlap /\ pc["rollover"] = "idle"
    /\ \E ok \in Outcomes(BudgetOf(faults)) :
         LET mes_mas_reciente == get_latest_month(api_mes, ok)
         IN  /\ faults' = Count(faults, "backend", ok)
             /\ mes_mas_reciente # None
             /\ pc' = [pc EXCEPT !["rollover"] = "compare"]
             /\ arg' = [arg EXCEPT !["rollover"] = [dia |-> 0, mes |-> mes_mas_reciente]]
    /\ UNCHANGED << tweets_log, bot_state, twitter_api, twitter, api_mes, today,
                    overlap, tick, retry, acked, last >>

\* verificar_nuevo_mes, lines 1022-1032: compare with the stored month, store the
\* new one and go on to execute_scheduled_post(0, mes_mas_reciente).
RoCompare ==
    /\ UNCHANGED << boot, io >>
    /\ overlap /\ pc["rollover"] = "compare"
    /\ \E rd_ok \in Outcomes(BudgetOf(faults)) :
         LET mes_mas_reciente == arg["rollover"].mes
             mes_actual == get_bot_state(bot_state, StateKey, rd_ok)
         IN  IF NuevoMesDetectado(mes_actual, mes_mas_reciente)
             THEN \E wr_ok \in Outcomes(BudgetOf(Count(faults, "store", rd_ok))) :
                    /\ faults' = Count(Count(faults, "store", rd_ok), "store", wr_ok)
                    /\ bot_state' = set_bot_state(bot_state, StateKey, mes_mas_reciente, wr_ok)
                    /\ pc' = [pc EXCEPT !["rollover"] = "exec"]
                    /\ UNCHANGED arg
             ELSE /\ faults' = Count(faults, "store", rd_ok)
                  /\ pc' = [pc EXCEPT !["rollover"] = "idle"]
                  /\ arg' = [arg EXCEPT !["rollover"] = NoArg]
                  /\ UNCHANGED bot_state
    /\ UNCHANGED << tweets_log, twitter_api, twitter, api_mes, today, overlap, tick,
                    retry, acked, last >>

\* /force and tools/force_tweet.py: the request arrives.
ForceStart ==
    /\ UNCHANGED << boot, io >>
    /\ overlap /\ pc["force"] = "idle"
    /\ \E dia \in ForceDays, mes \in Months :
         arg' = [arg EXCEPT !["force"] = [dia |-> dia, mes |-> mes]]
    /\ pc' = [pc EXCEPT !["force"] = "exec"]
    /\ UNCHANGED << tweets_log, bot_state, twitter_api, twitter, api_mes, today, faults,
                    overlap, tick, retry, acked, last >>

\* ------------------------------------------------------------ specification
NoFaults == [k \in FaultKinds |-> 0]

\* A fresh database, the client set up or not, no job running.
Init ==
    /\ tweets_log = EmptyBag
    /\ bot_state = [k \in {} |-> None]
    /\ twitter_api \in {"client", None}
    /\ twitter = EmptyBag
    /\ api_mes \in Months
    /\ today \in 1..MaxDay
    /\ faults = NoFaults
    /\ overlap \in BOOLEAN
    /\ pc = [p \in Procs |-> "idle"]
    /\ arg = [p \in Procs |-> NoArg]
    /\ tick = NoTick
    /\ retry = NoRetry
    /\ acked = {}
    /\ last = NoCall
    /\ boot = Booted
    /\ io = NoIO

Next ==
    \/ CatchUp
    \/ Rollover
    \/ Force
    \/ Status
    \/ Preview
    \/ PreviewAll
    \/ Clock
    \/ BackendMonth
    \/ CuStart
    \/ CuLoop
    \/ RoStart
    \/ RoCompare
    \/ ForceStart
    \/ \E p \in Procs : ExecCheck(p)
    \/ \E p \in Procs : ExecSend(p)

Spec == Init /\ [][Next]_vars

\* The sequential operations alone, with catch-up ticks that keep firing (the
\* interval job of start_scheduler).
LiveInit == Init /\ ~overlap

LiveNext ==
    \/ CatchUp
    \/ Rollover
    \/ Force
    \/ Clock
    \/ BackendMonth

SpecLive == LiveInit /\ [][LiveNext]_vars /\ WF_vars(CatchUp)

\* The two timer jobs of start_scheduler alone, with a record of the months the
\* rollover checks have replaced as the stored publishing month.
Driver(left) == [fn |-> "driver", left |-> left]

\* verificar_nuevo_mes run by its timer; a stored month it replaces is recorded.
DriverRollover ==
    /\ ~overlap
    /\ RunRolloverCheck
    /\ io' = Driver(io.left \cup
                     IF bot_state' # bot_state /\ StateKey \in DOMAIN bot_state
                     THEN {bot_state[StateKey]} ELSE {})
    /\ UNCHANGED << twitter_api, api_mes, today, overlap, pc, arg, tick, retry, boot >>

DriverInit ==
    /\ tweets_log = EmptyBag
    /\ bot_state = [k \in {} |-> None]
    /\ twitter_api \in {"client", None}
    /\ twitter = EmptyBag
    /\ api_mes \in Months
    /\ today \in 1..MaxDay
    /\ faults = NoFaults
    /\ overlap = FALSE
    /\ pc = [p \in Procs |-> "idle"]
    /\ arg = [p \in Procs |-> NoArg]
    /\ tick = NoTick
    /\ retry = NoRetry
    /\ acked = {}
    /\ last = NoCall
    /\ boot = Booted
    /\ io = Driver({})

DriverNext ==
    \/ CatchUp
    \/ DriverRollover
    \/ Clock
    \/ BackendMonth

SpecDriver == DriverInit /\ [][DriverNext]_vars

\* ------------------------------------------------------------------ startup
\* The hours of startup that are followed.
MaxHours == 6

\* The values a credential has in the environments considered: not set, empty,
\* a blank, a key, a key between blanks.
EnvValues ==
    {Unset} \cup {EnvValue(v) : v \in {<< >>, << " " >>, << "k" >>, << " ", "k", " " >>}}

\* Python's str.strip(): the text without its leading and trailing blanks.
RECURSIVE lstrip(_)
lstrip(text) == IF text # << >> /\ Head(text) = " " THEN lstrip(Tail(text)) ELSE text

RECURSIVE rstrip(_)
rstrip(text) ==
    IF text # << >> /\ text[Len(text)] = " "
    THEN rstrip(SubSeq(text, 1, Len(text) - 1))
    ELSE text

strip(text) == rstrip(lstrip(text))

\* A validation that only asks for the variables to be set.
validate_credentials_set(creds) == \A var \in Credentials : creds[var].set

\* validate_credentials: all(var is not None and var.strip() != "").
validate_credentials(creds) ==
    \A var \in Credentials : creds[var].set /\ strip(creds[var].value) # << >>

\* The ids of the two interval jobs of start_scheduler.
Jobs == {"verificar_posts", "verificar_nuevo_mes"}

\* add_job(..., 'interval', hours=3) and add_job(..., 'interval', hours=6).
IntervalHours(job) == IF job = "verificar_posts" THEN 3 ELSE 6

\* A timer that is due as soon as the scheduler runs.
TimerDueAtOnce(job, now) == TRUE

\* An interval job runs for the first time one interval after the scheduler started.
TimerDue(job, now) == now >= IntervalHours(job)

\* The variables startup leaves alone.
StartFrame == << api_mes, today, overlap, pc, arg, tick, io >>

Store == << tweets_log, bot_state, twitter, faults, retry, acked, last >>

\* main, lines 1285-1294: the credentials are validated; main returns when they
\* are not valid.
ValidateCredentials ==
    /\ boot.pc = "main"
    /\ boot' = [boot EXCEPT !.pc = IF validate_credentials(boot.creds)
                                   THEN "validated" ELSE "halted"]
    /\ UNCHANGED << Store, twitter_api, StartFrame >>

\* main, line 1297: TwitterBot(). AviationAPIClient's base_url.rstrip raises when
\* AVIADATA_API_URL is not set, and main ends with that error; _setup_twitter_api
\* gives the client, or None when get_me fails.
Construct ==
    /\ boot.pc = "validated"
    /\ IF boot.url
       THEN /\ boot' = [boot EXCEPT !.pc = "constructed", !.bot = TRUE]
            /\ twitter_api' \in {"client", None}
       ELSE /\ boot' = [boot EXCEPT !.pc = "crashed"]
            /\ UNCHANGED twitter_api
    /\ UNCHANGED << Store, StartFrame >>

\* start_scheduler, lines 1041-1056: the two jobs are added and the scheduler started.
StartScheduler ==
    /\ boot.pc = "constructed"
    /\ boot' = [boot EXCEPT !.pc = "armed", !.scheduler = TRUE, !.now = 0]
    /\ UNCHANGED << Store, twitter_api, StartFrame >>

\* start_scheduler, line 1062: the startup check is called on main's thread.
InitialCheckBegin ==
    /\ boot.pc = "armed"
    /\ boot' = [boot EXCEPT !.pc = "checking", !.checks = @ + 1]
    /\ UNCHANGED << Store, twitter_api, StartFrame >>

\* The startup check does its work and returns.
InitialCheckEnd ==
    /\ boot.pc = "checking"
    /\ RunRolloverCheck
    /\ boot' = [boot EXCEPT !.pc = "checked"]
    /\ UNCHANGED << retry, twitter_api, StartFrame >>

\* main, line 1303: start_http_server; main then sleeps in its loop.
StartHttpServer ==
    /\ boot.pc = "checked"
    /\ boot' = [boot EXCEPT !.pc = "serving", !.http = TRUE]
    /\ UNCHANGED << Store, twitter_api, StartFrame >>

\* An hour passes while the startup check runs (its requests and create_tweet
\* have no overall deadline: the client waits out rate limits) or while main
\* sleeps. A timer that is due fires first.
Hour ==
    /\ boot.pc \in {"checking", "serving"}
    /\ boot.now < MaxHours
    /\ \A job \in Jobs \ boot.fired : ~TimerDue(job, boot.now)
    /\ boot' = [boot EXCEPT !.now = @ + 1]
    /\ UNCHANGED << Store, twitter_api, StartFrame >>

\* The timer of a job fires for the first time: the job runs on a scheduler thread.
TimerFire(job) ==
    /\ boot.scheduler /\ job \notin boot.fired
    /\ TimerDue(job, boot.now)
    /\ boot' = [boot EXCEPT !.fired = @ \cup {job},
                            !.overlapped = @ \/ boot.pc = "checking"]
    /\ IF job = "verificar_posts"
       THEN RunCatchUp /\ UNCHANGED bot_state
       ELSE RunRolloverCheck /\ UNCHANGED retry
    /\ UNCHANGED << twitter_api, StartFrame >>

\* The process is started in some environment, on a fresh database.
StartInit ==
    /\ tweets_log = EmptyBag
    /\ bot_state = [k \in {} |-> None]
    /\ twitter_api = None
    /\ twitter = EmptyBag
    /\ api_mes \in Months
    /\ today \in 1..MaxDay
    /\ faults = NoFaults
    /\ overlap = FALSE
    /\ pc = [p \in Procs |-> "idle"]
    /\ arg = [p \in Procs |-> NoArg]
    /\ tick = NoTick
    /\ retry = NoRetry
    /\ acked = {}
    /\ last = NoCall
    /\ io = NoIO
    /\ boot \in {Startup("main", creds, url) :
                    creds \in [Credentials -> EnvValues], url \in BOOLEAN}

StartNext ==
    \/ ValidateCredentials
    \/ Construct
    \/ StartScheduler
    \/ InitialCheckBegin
    \/ InitialCheckEnd
    \/ StartHttpServer
    \/ Hour
    \/ \E job \in Jobs : TimerFire(job)

SpecStart == StartInit /\ [][StartNext]_vars

\* ------------------------------------------------------------ text handling
\* The longest text a formatter renders or a caller hands to send_tweet.
MaxRendered == 283

\* The slice bound of every formatter's "return tweet[:280]".
FormatterLimit == 280

\* send_tweet, lines 818-819: the length above which a text is cut, and where.
TweetLimit == 280

CutAt == 277

\* A text of n characters: each character is its position in the text.
Text(n) == [i \in 1..n |-> i]

\* The three characters "...": marked 0.
Ellipsis == << 0, 0, 0 >>

\* Python's text[:n].
Slice(text, n) == SubSeq(text, 1, IF Len(text) < n THEN Len(text) ELSE n)

\* A formatter that returns the rendered text whole.
formatter_return_unsliced(tweet) == tweet

\* The last line of every formatter: return tweet[:280].
formatter_return(tweet) == Slice(tweet, FormatterLimit)

\* A cut that keeps 280 characters before the ellipsis.
truncate_after_limit(text) ==
    IF Len(text) > TweetLimit THEN Slice(text, TweetLimit) \o Ellipsis ELSE text

\* send_tweet, lines 818-819: if len(text) > 280: text = text[:277] + "...".
truncate(text) ==
    IF Len(text) > TweetLimit THEN Slice(text, CutAt) \o Ellipsis ELSE text

\* generate_content_for_post_type(tipo_post, mes): the requests of the type are
\* made and its formatter renders a text of some length, or returns None.
GenerateText ==
    /\ io = NoIO
    /\ \E tipo_post \in PostTypes, n \in 0..MaxRendered :
         \E data \in [1..Fetches(tipo_post) -> Payloads] :
           io' = [fn |-> "generate_content_for_post_type", tipo_post |-> tipo_post,
                  data |-> data,
                  nulo |-> ~generate_content_for_post_type(tipo_post, data),
                  tweet |-> Text(n),
                  texto |-> IF generate_content_for_post_type(tipo_post, data)
                            THEN formatter_return(Text(n)) ELSE << >>]
    /\ UNCHANGED << tweets_log, bot_state, twitter_api, twitter, api_mes, today, faults,
                    overlap, pc, arg, tick, retry, acked, last, boot >>

\* send_tweet(text, ...): what is handed to create_tweet and what log_tweet is
\* given as tweet_text, for a text of some length and each result of create_tweet.
SendText ==
    /\ io = NoIO
    /\ \E n \in 0..MaxRendered, res \in ApiResults(1) :
         LET text == Text(n)
             called == twitter_api # None
             logged == called /\ res \in {"ok", "tweepy_error"}
         IN  io' = [fn |-> "send_tweet", text |-> text, called |-> called,
                    submitted |-> IF called THEN truncate(text) ELSE << >>,
                    logged |-> logged,
                    tweet_text |-> IF logged THEN truncate(text) ELSE << >>]
    /\ UNCHANGED << tweets_log, bot_state, twitter_api, twitter, api_mes, today, faults,
                    overlap, pc, arg, tick, retry, acked, last, boot >>

\* ---- month arithmetic of the comparison types ----
\* A month string is a sequence of one-character strings.
Digits == << "0", "1", "2", "3", "4", "5", "6", "7", "8", "9" >>

IsDigit(c) == \E i \in 1..10 : Digits[i] = c

DigitVal(c) == (CHOOSE i \in 1..10 : Digits[i] = c) - 1

\* int() of a string of digits.
RECURSIVE Number(_)
Number(text) ==
    IF text = << >> THEN 0
    ELSE 10 * Number(SubSeq(text, 1, Len(text) - 1)) + DigitVal(text[Len(text)])

\* The zero-padded decimal of strftime, `width` digits.
Zfill(n, width) == [i \in 1..width |-> Digits[((n \div (10 ^ (width - i))) % 10) + 1]]

AllDigits(text) == \A i \in 1..Len(text) : IsDigit(text[i])

\* The field of %m and of %d: two digits, or one digit that is not 0.
Field(text, max) ==
    /\ Len(text) \in {1, 2}
    /\ AllDigits(text)
    /\ Number(text) \in 1..max

NoDate == [ok |-> FALSE, year |-> 0, month |-> 0]

\* datetime.strptime(text, "%Y-%m-%d"): the whole text must match four digits,
\* "-", a month field, "-", a day field; year 0 is below datetime's MINYEAR.
\* Anything else raises ValueError (ok = FALSE).
strptime(text) ==
    LET parses == { [ok |-> TRUE, year |-> Number(SubSeq(text, 1, 4)),
                     month |-> Number(SubSeq(text, 6, 5 + k))] :
                    k \in { k \in 1..2 :
                             /\ Len(text) \in {4 + 1 + k + 1 + 1, 4 + 1 + k + 1 + 2}
                             /\ AllDigits(SubSeq(text, 1, 4))
                             /\ Number(SubSeq(text, 1, 4)) >= 1
                             /\ text[5] = "-"
                             /\ Field(SubSeq(text, 6, 5 + k), 12)
                             /\ text[6 + k] = "-"
                             /\ Field(SubSeq(text, 7 + k, Len(text)), 28) } }
    IN  IF parses = {} THEN NoDate ELSE CHOOSE d \in parses : TRUE

Absent == [ok |-> FALSE, text |-> << >>]

\* A prior month that stays in the year of the month given.
get_prev_month_same_year(mes) ==
    LET dt == strptime(mes \o << "-", "0", "1" >>)
    IN  IF ~dt.ok \/ dt.month = 1 THEN Absent
        ELSE [ok |-> TRUE, text |-> Zfill(dt.year, 4) \o << "-" >> \o Zfill(dt.month - 1, 2)]

\* _get_prev_month: the first of the month is parsed, one day is subtracted, and
\* the year and month of that day are formatted; any exception gives None
\* (the parser's ValueError, or OverflowError before January of year 1).
get_prev_month(mes) ==
    LET dt == strptime(mes \o << "-", "0", "1" >>)
    IN  IF ~dt.ok \/ (dt.year = 1 /\ dt.month = 1) THEN Absent
        ELSE IF dt.month = 1
             THEN [ok |-> TRUE, text |-> Zfill(dt.year - 1, 4) \o << "-" >> \o Zfill(12, 2)]
             ELSE [ok |-> TRUE, text |-> Zfill(dt.year, 4) \o << "-" >> \o Zfill(dt.month - 1, 2)]

\* The month strings the comparison is run on: well-formed ones and broken ones.
YearTokens == { << "2", "0", "2", "5" >>, << "2", "0", "2", "6" >>, << "2", "5" >>,
                << "2", "0", "x", "5" >> }

Separators == { << "-" >>, << "/" >>, << >> }

MonthTokens == { << "0", "1" >>, << "0", "2" >>, << "0", "9" >>, << "1", "0" >>,
                 << "1", "2" >>, << "0", "0" >>, << "1", "3" >>, << "1" >>, << "9" >>,
                 << "0" >>, << >>, << "1", "x" >>, << "0", "0", "1" >> }

MonthStrings == { y \o sep \o m : y \in YearTokens, sep \in Separators, m \in MonthTokens }

\* generate_content_for_post_type for a comparison type, lines 895-900 and
\* 908-914: without a prior month it returns None before any request; with one
\* it requests the month and the prior month and formats the two payloads.
GenerateComparison ==
    /\ io = NoIO
    /\ \E tipo_post \in {"comparativa_aeropuertos", "comparativa_mensual"},
          mes \in MonthStrings, data \in [1..2 -> Payloads] :
         LET prev_mes == get_prev_month(mes)
         IN  io' = [fn |-> "_get_prev_month", tipo_post |-> tipo_post, mes |-> mes,
                    prev_mes |-> prev_mes,
                    requests |-> IF prev_mes.ok THEN << mes, prev_mes.text >> ELSE << >>,
                    nulo |-> ~(prev_mes.ok /\ generate_content_for_post_type(tipo_post, data))]
    /\ UNCHANGED << tweets_log, bot_state, twitter_api, twitter, api_mes, today, faults,
                    overlap, pc, arg, tick, retry, acked, last, boot >>

\* ---- rankings ----
MaxItems == 4

\* JSON values of a count: null (or the key missing), a string, a number.
Null == [t |-> "null", v |-> 0]

Str == [t |-> "str", v |-> 0]

Num(n) == [t |-> "num", v |-> n]

\* Python's truth value of such a value (the string is not empty).
Truthy(x) == x.t = "str" \/ (x.t = "num" /\ x.v # 0)

\* Python's `a or b`.
Or(a, b) == IF Truthy(a) THEN a ELSE b

\* parse_item, lines 319-333; the entry's name is its place in the payload.
parse_item(item, i) ==
    [nombre |-> i,
     vuelos |-> Or(item.total_vuelos, Or(item.Cantidad, Or(item.vuelos, Num(0))))]

\* A sort that puts an entry before the entries of equal count that came before it.
RECURSIVE sorted_reverse_unstable(_)
sorted_reverse_unstable(seq) ==
    IF seq = << >> THEN << >>
    ELSE LET rest == sorted_reverse_unstable(SubSeq(seq, 1, Len(seq) - 1))
             x == seq[Len(seq)]
             k == Cardinality({ j \in 1..Len(rest) : rest[j].vuelos.v > x.vuelos.v })
         IN  SubSeq(rest, 1, k) \o << x >> \o SubSeq(rest, k + 1, Len(rest))

\* sorted(parsed, key=lambda x: x[1], reverse=True): descending by count, and
\* entries of equal count keep the order they had (the sort is stable).
RECURSIVE sorted_reverse(_)
sorted_reverse(seq) ==
    IF seq = << >> THEN << >>
    ELSE LET rest == sorted_reverse(SubSeq(seq, 1, Len(seq) - 1))
             x == seq[Len(seq)]
             k == Cardinality({ j \in 1..Len(rest) : rest[j].vuelos.v >= x.vuelos.v })
         IN  SubSeq(rest, 1, k) \o << x >> \o SubSeq(rest, k + 1, Len(rest))

\* The medal labels, in the order of the source's list.
emojis == << "1st", "2nd", "3rd" >>

NoRanking == [nulo |-> TRUE, top |-> << >>]

Labelled(top_3) ==
    [nulo |-> FALSE,
     top |-> [k \in 1..Len(top_3) |->
                [medal |-> emojis[k], nombre |-> top_3[k].nombre,
                 vuelos |-> top_3[k].vuelos.v]]]

\* generar_top_aerolineas, lines 305-354.
generar_top_aerolineas(data) ==
    IF data = << >> THEN NoRanking
    ELSE LET all == [i \in 1..Len(data) |-> parse_item(data[i], i)]
             parsed == SelectSeq(all, LAMBDA p : p.vuelos.t = "num" /\ p.vuelos.v > 0)
         IN  IF parsed = << >> THEN NoRanking
             ELSE Labelled(Slice(sorted_reverse(parsed), 3))

\* generar_destinos_internacionales, lines 451-472: the first three entries of
\* the payload as they come.
generar_destinos_internacionales(data) ==
    IF data = << >> THEN NoRanking
    ELSE Labelled(Slice([i \in 1..Len(data) |->
                           [nombre |-> i, vuelos |-> data[i].total_vuelos]], 3))

\* The entries a payload of the airlines endpoint is built from.
AirlineItems ==
    [total_vuelos : {Null, Str, Num(0 - 1), Num(0), Num(1), Num(2)},
     Cantidad : {Null, Num(2)}, vuelos : {Null}]

\* The entries of the destinations endpoint: the count is always a number.
DestinationItems == [total_vuelos : {Num(0 - 1), Num(0), Num(1), Num(2)}]

RankAirlines ==
    /\ io = NoIO
    /\ \E n \in 0..MaxItems : \E data \in [1..n -> AirlineItems] :
         io' = [fn |-> "generar_top_aerolineas", data |-> data,
                result |-> generar_top_aerolineas(data)]
    /\ UNCHANGED << tweets_log, bot_state, twitter_api, twitter, api_mes, today, faults,
                    overlap, pc, arg, tick, retry, acked, last, boot >>

RankDestinations ==
    /\ io = NoIO
    /\ \E n \in 0..MaxItems : \E data \in [1..n -> DestinationItems] :
         io' = [fn |-> "generar_destinos_internacionales", data |-> data,
                result |-> generar_destinos_internacionales(data)]
    /\ UNCHANGED << tweets_log, bot_state, twitter_api, twitter, api_mes, today, faults,
                    overlap, pc, arg, tick, retry, acked, last, boot >>

\* execute_scheduled_post, lines 955-963: the text that was generated is handed
\* to send_tweet; without a text the function returns False (TextReturn).
SendGenerated ==
    /\ io # NoIO
    /\ io.fn = "generate_content_for_post_type" /\ ~io.nulo
    /\ \E res \in ApiResults(1) :
         LET called == twitter_api # None
             logged == called /\ res \in {"ok", "tweepy_error"}
         IN  io' = [fn |-> "send_tweet", text |-> io.texto, called |-> called,
                    submitted |-> IF called THEN truncate(io.texto) ELSE << >>,
                    logged |-> logged,
                    tweet_text |-> IF logged THEN truncate(io.texto) ELSE << >>]
    /\ UNCHANGED << tweets_log, bot_state, twitter_api, twitter, api_mes, today, faults,
                    overlap, pc, arg, tick, retry, acked, last, boot >>

\* The call returns.
TextReturn ==
    /\ io # NoIO
    /\ io' = NoIO
    /\ UNCHANGED << tweets_log, bot_state, twitter_api, twitter, api_mes, today, faults,
                    overlap, pc, arg, tick, retry, acked, last, boot >>

\* A bot at rest, handed texts.
TextInit == Init /\ ~overlap /\ api_mes = "2025-09" /\ today = 1

TextNext ==
    \/ GenerateText
    \/ SendText
    \/ SendGenerated
    \/ GenerateComparison
    \/ RankAirlines
    \/ RankDestinations
    \/ TextReturn

SpecText == TextInit /\ [][TextNext]_vars


\* ---- the HTTP endpoints ----
\* A response: the status code, whether the body is JSON, the keys of the JSON
\* object, the value of its "ok" key ("none" without one), the endpoint the
\* handler requested from the backend, and the pending days and the next day
\* (a sequence of one day, empty for null) of a /status body.
Response(route, code, json, keys, ok) ==
    [fn |-> "http", route |-> route, code |-> code, json |-> json, keys |-> keys,
     ok |-> ok, endpoint |-> None, requests |-> << >>, mes |-> None, pending |-> << >>,
     next |-> << >>]

\* Flask's answer to an exception that leaves the view: an HTML error page.
ErrorPage(route, code) == Response(route, code, FALSE, {}, "none")

\* jsonify({"ok": bool(ok), ...}).
Flag(ok) == IF ok THEN "true" ELSE "false"

\* A "dia" parameter: missing, not a number, or a day.
DiaParams ==
    {[t |-> "missing", v |-> 0], [t |-> "text", v |-> 0]}
      \cup {[t |-> "int", v |-> d] : d \in ForceDays}

\* The bodies of a POST /force: no data, data that is not JSON, or a JSON object
\* with or without "dia" and "mes".
ForceBodies ==
    {[data |-> "empty", dia |-> [t |-> "missing", v |-> 0], mes |-> None],
     [data |-> "invalid", dia |-> [t |-> "missing", v |-> 0], mes |-> None]}
      \cup [data : {"json"}, dia : DiaParams, mes : Months \cup {None}]

\* A next entry that is the last of the pending list.
next_post_last(pending) ==
    IF pending = << >> THEN << >> ELSE << pending[Len(pending)] >>

\* get_next_pending_post, line 1094: pending[0] if pending else None.
next_post(pending) == IF pending = << >> THEN << >> ELSE << pending[1] >>

\* /status, lines 1104-1107: jsonify of get_next_pending_post's result.
HttpStatus ==
    /\ ~overlap
    /\ \E rd_ok \in Outcomes(BudgetOf(faults)) :
         LET mes_actual == get_bot_state(bot_state, StateKey, rd_ok)
             f1 == Count(faults, "store", rd_ok)
         IN  IF mes_actual = None
             THEN /\ faults' = f1
                  /\ last' = Summary("status", None, << >>, f1)
                  /\ io' = Response("/status", 200, TRUE,
                                    {"mes", "next", "pending", "message"}, "none")
             ELSE \E P \in PendingFrom(1, [faults |-> f1, pending |-> << >>],
                                       mes_actual, today) :
                    /\ faults' = P.faults
                    /\ last' = Summary("status", mes_actual, << >>, P.faults)
                    /\ io' = [Response("/status", 200, TRUE, {"mes", "next", "pending"},
                                       "none")
                                EXCEPT !.mes = mes_actual, !.pending = P.pending,
                                       !.next = next_post(P.pending)]
    /\ UNCHANGED << tweets_log, bot_state, twitter, acked >>
    /\ UNCHANGED << twitter_api, api_mes, today, overlap, pc, arg, tick, retry, boot >>

\* /force-next, lines 1109-1117: the first pending entry is executed.
HttpForceNext ==
    /\ ~overlap
    /\ \E rd_ok \in Outcomes(BudgetOf(faults)) :
         LET mes_actual == get_bot_state(bot_state, StateKey, rd_ok)
             f1 == Count(faults, "store", rd_ok)
         IN  IF mes_actual = None
             THEN /\ faults' = f1
                  /\ last' = Summary("force_next", None, << >>, f1)
                  /\ io' = Response("/force-next", 400, TRUE, {"ok", "message"}, "false")
                  /\ UNCHANGED << tweets_log, twitter, acked >>
             ELSE \E P \in PendingFrom(1, [faults |-> f1, pending |-> << >>],
                                       mes_actual, today) :
                    IF next_post(P.pending) = << >>
                    THEN /\ faults' = P.faults
                         /\ last' = Summary("force_next", mes_actual, << >>, P.faults)
                         /\ io' = [Response("/force-next", 400, TRUE, {"ok", "message"},
                                            "false") EXCEPT !.mes = mes_actual]
                         /\ UNCHANGED << tweets_log, twitter, acked >>
                    ELSE \E R \in execute_scheduled_post([Cur EXCEPT !.faults = P.faults],
                                                         next_post(P.pending)[1], mes_actual) :
                           /\ Becomes(R)
                           /\ last' = Summary("force_next", mes_actual, << R.ev >>, R.faults)
                           /\ io' = [Response("/force-next", 200, TRUE, {"ok", "dia", "mes"},
                                              Flag(R.ev.ret))
                                       EXCEPT !.mes = mes_actual, !.pending = P.pending,
                                              !.next = next_post(P.pending)]
    /\ UNCHANGED bot_state
    /\ UNCHANGED << twitter_api, api_mes, today, overlap, pc, arg, tick, retry, boot >>

\* /force, lines 1120-1128. A body that is not JSON makes get_json raise
\* BadRequest; int(body.get("dia")) raises TypeError without "dia" and ValueError
\* for a text, before the check for missing parameters: the exception leaves the view.
HttpForce ==
    /\ ~overlap
    /\ \E body \in ForceBodies :
         IF body.data = "invalid"
         THEN /\ io' = ErrorPage("/force", 400)
              /\ last' = Summary("force", None, << >>, faults)
              /\ UNCHANGED << tweets_log, twitter, faults, acked >>
         ELSE IF body.dia.t # "int"
         THEN /\ io' = ErrorPage("/force", 500)
              /\ last' = Summary("force", None, << >>, faults)
              /\ UNCHANGED << tweets_log, twitter, faults, acked >>
         ELSE IF body.mes = None
         THEN /\ io' = Response("/force", 400, TRUE, {"ok", "message"}, "false")
              /\ last' = Summary("force", None, << >>, faults)
              /\ UNCHANGED << tweets_log, twitter, faults, acked >>
         ELSE \E R \in execute_scheduled_post(Cur, body.dia.v, body.mes) :
                /\ Becomes(R)
                /\ last' = Summary("force", body.mes, << R.ev >>, R.faults)
                /\ io' = [Response("/force", 200, TRUE, {"ok", "dia", "mes"},
                                   Flag(R.ev.ret)) EXCEPT !.mes = body.mes]
    /\ UNCHANGED bot_state
    /\ UNCHANGED << twitter_api, api_mes, today, overlap, pc, arg, tick, retry, boot >>

\* /preview, lines 1131-1165: every exception is answered with a JSON 500.
HttpPreview ==
    /\ ~overlap
    /\ \E dia \in DiaParams :
         IF dia.t # "int"
         THEN /\ io' = Response("/preview", IF dia.t = "missing" THEN 400 ELSE 500, TRUE,
                                {"ok", "message"}, "false")
              /\ last' = Summary("preview", None, << >>, faults)
              /\ UNCHANGED << tweets_log, bot_state, twitter, faults, acked >>
         ELSE \E P \in PreviewMonth(Cur, bot_state) :
                IF P.mes = None \/ TipoDe(dia.v) = None
                THEN /\ PreviewDone("preview", P, {}, P.faults)
                     /\ io' = Response("/preview", IF P.mes = None THEN 400 ELSE 404, TRUE,
                                       {"ok", "message"}, "false")
                ELSE \E data \in FetchResults(Fetches(TipoDe(dia.v)), BudgetOf(P.faults)) :
                       /\ PreviewDone("preview", P, {dia.v},
                                      [P.faults EXCEPT !["backend"] = @ + Unusable(data)])
                       /\ io' = IF generate_content_for_post_type(TipoDe(dia.v), data)
                                THEN [Response("/preview", 200, TRUE,
                                               {"ok", "dia", "mes", "tipo", "texto"}, "true")
                                        EXCEPT !.mes = P.mes]
                                ELSE Response("/preview", 500, TRUE, {"ok", "message"},
                                              "false")
    /\ UNCHANGED << twitter_api, api_mes, today, overlap, pc, arg, tick, retry, boot >>

\* /preview-all, lines 1168-1212.
HttpPreviewAll ==
    /\ ~overlap
    /\ \E P \in PreviewMonth(Cur, bot_state) :
         IF P.mes = None
         THEN /\ PreviewDone("preview_all", P, {}, P.faults)
              /\ io' = Response("/preview-all", 400, TRUE, {"ok", "message"}, "false")
         ELSE \E f \in GenerateAll(1, P.faults) :
                /\ PreviewDone("preview_all", P, ScheduleDays, f)
                /\ io' = [Response("/preview-all", 200, TRUE, {"ok", "mes", "resultados"},
                                   "true") EXCEPT !.mes = P.mes]
    /\ UNCHANGED << twitter_api, api_mes, today, overlap, pc, arg, tick, retry, boot >>

\* The whitelist of /debug, lines 1224-1252.
allowed ==
    {"/vuelos/aerolinea", "/vuelos/pasajeros", "/vuelos/ocupacion", "/vuelos/mes",
     "/vuelos/clase", "/vuelos/aeropuerto", "/vuelos/rutas", "/vuelos/diario",
     "/pasajeros/diario", "/vuelos/kpis", "/aerolineas/lista", "/vuelos/tipos",
     "/vuelos/clases", "/vuelos/provincias", "/vuelos/paises",
     "/vuelos/rutas-enriquecidas", "/vuelos/detallados",
     "/aeropuertos/evolucion-mensual", "/aeropuertos/lista", "/aeropuertos/rango-meses",
     "/aeropuertos/aerolineas-cambios", "/vuelos/mapa-rutas", "/aeropuertos/mapa",
     "/vuelos/mapa/rutas-optimizadas", "/vuelos/mapa/aeropuertos",
     "/vuelos/mapa/red-aerolinea/{aerolinea}", "/vuelos/mapa/heatmap-trafico"}

\* The endpoint parameters tried: none, an empty one, two of the whitelist, and
\* four that are not on it.
DebugEndpoints ==
    {None, "", "/vuelos/aerolinea", "/vuelos/kpis", "/admin/config", "/vuelos/aerolinea/",
     "/VUELOS/KPIS", "/vuelos/mapa/red-aerolinea/AR"}

\* A check that lets every named endpoint through.
endpoint_named(endpoint) == endpoint \notin {None, ""}

\* /debug, lines 1219-1255: the endpoint must be given and be in the whitelist.
endpoint_allowed(endpoint) == endpoint \notin {None, ""} /\ endpoint \in allowed

\* /debug, lines 1215-1265: the raw JSON of a whitelisted backend endpoint.
HttpDebug ==
    /\ ~overlap
    /\ \E endpoint \in DebugEndpoints, mes \in Months \cup {None} :
         IF ~endpoint_allowed(endpoint)
         THEN /\ io' = [Response("/debug", 400, TRUE, {"ok", "message"}, "false")
                          EXCEPT !.endpoint = endpoint]
              /\ last' = Summary("debug", None, << >>, faults)
              /\ UNCHANGED faults
         ELSE \E rd_ok \in Outcomes(BudgetOf(faults)) :
                LET mes_actual == get_bot_state(bot_state, StateKey, rd_ok)
                    f1 == Count(faults, "store", rd_ok)
                IN  \E data_ok \in Outcomes(BudgetOf(f1)) :
                      /\ faults' = Count(f1, "backend", data_ok)
                      /\ last' = Summary("debug", IF mes # None THEN mes ELSE mes_actual,
                                         << >>, Count(f1, "backend", data_ok))
                      /\ io' = [Response("/debug", 200, TRUE,
                                         {"ok", "endpoint", "params", "data"}, "true")
                                  EXCEPT !.endpoint = endpoint,
                                         !.requests = << endpoint >>,
                                         !.mes = IF mes # None THEN mes ELSE mes_actual]
    /\ UNCHANGED << tweets_log, bot_state, twitter, acked >>
    /\ UNCHANGED << twitter_api, api_mes, today, overlap, pc, arg, tick, retry, boot >>

HttpInit == Init /\ ~overlap

HttpNext ==
    \/ HttpStatus
    \/ HttpForceNext
    \/ HttpForce
    \/ HttpPreview
    \/ HttpPreviewAll
    \/ HttpDebug

SpecHttp == HttpInit /\ [][HttpNext]_vars


\* ---- the store, row by row ----
MaxRows == 11

ReportLimit == 10

StateKeys == {StateKey, "other_key"}

\* A plain INSERT into a table without a primary key.
insert_plain(rows, key, value) == rows \cup {[key |-> key, value |-> value]}

\* INSERT OR REPLACE INTO bot_state, lines 185-188, with key as PRIMARY KEY
\* (line 119): the row of the same key is deleted and the new row inserted.
insert_or_replace(rows, key, value) ==
    { r \in rows : r.key # key } \cup {[key |-> key, value |-> value]}

\* SELECT value FROM bot_state WHERE key = ? and fetchone, lines 174-176.
select_value(rows, key) ==
    LET result == { r \in rows : r.key = key }
    IN  IF result = {} THEN None ELSE (CHOOSE r \in result : TRUE).value

NoRet == [op |-> "none", key |-> None, ok |-> TRUE, value |-> None]

\* The bot_state table as rows; `written` is the value of the last successful
\* set_bot_state of each key, `replaced` the keys whose row was replaced by a
\* row of another value.
StateIO == [fn |-> "bot_state", rows |-> {}, written |-> [k \in {} |-> None],
            replaced |-> {}, ret |-> NoRet]

\* set_bot_state, lines 181-193: any exception gives False and writes nothing.
SetBotState ==
    /\ io.fn = "bot_state"
    /\ \E key \in StateKeys, value \in Months, ok \in BOOLEAN :
         /\ bot_state' = set_bot_state(bot_state, key, value, ok)
         /\ io' = [io EXCEPT
                     !.rows = IF ok THEN insert_or_replace(@, key, value) ELSE @,
                     !.written = IF ok
                                 THEN [k \in (DOMAIN @) \cup {key} |->
                                         IF k = key THEN value ELSE @[k]]
                                 ELSE @,
                     !.replaced = IF ok /\ select_value(io.rows, key) \notin {None, value}
                                  THEN @ \cup {key} ELSE @,
                     !.ret = [op |-> "set", key |-> key, ok |-> ok, value |-> value]]
    /\ UNCHANGED << tweets_log, twitter_api, twitter, api_mes, today, faults, overlap,
                    pc, arg, tick, retry, acked, last, boot >>

\* get_bot_state, lines 169-179: any exception gives None.
GetBotState ==
    /\ io.fn = "bot_state"
    /\ \E key \in StateKeys, ok \in BOOLEAN :
         io' = [io EXCEPT !.ret = [op |-> "get", key |-> key, ok |-> ok,
                                   value |-> IF ok THEN select_value(io.rows, key)
                                             ELSE None]]
    /\ UNCHANGED << tweets_log, bot_state, twitter_api, twitter, api_mes, today, faults,
                    overlap, pc, arg, tick, retry, acked, last, boot >>

\* The columns of tweets_log that log_tweet fills, lines 139-145.
LogColumns == {"tweet_text", "status", "tipo_post", "mes_relacionado", "dia_cronograma",
               "tweet_id", "error_message", "api_data"}

\* The columns the status tool selects, src/tools/status.py line 40.
ReportColumns == {"date_posted", "tipo_post", "status", "mes_relacionado",
                  "dia_cronograma"}

\* The records written: one with every optional field populated, one with none.
LogRecords ==
    { [tweet_text |-> "texto", status |-> "success", tipo_post |-> "top_aerolineas",
       mes_relacionado |-> "2025-09", dia_cronograma |-> 0, tweet_id |-> "1001",
       error_message |-> "aviso", api_data |-> "datos"],
      [tweet_text |-> "texto", status |-> "failed", tipo_post |-> "manual",
       mes_relacionado |-> None, dia_cronograma |-> None, tweet_id |-> None,
       error_message |-> None, api_data |-> None] }

\* The row of an INSERT: the columns given, the AUTOINCREMENT id and the
\* CURRENT_TIMESTAMP default of date_posted (later for a later row).
InsertedRow(rec, n) ==
    [c \in LogColumns \cup {"id", "date_posted"} |->
       IF c \in LogColumns THEN rec[c] ELSE n]

\* The ten rows inserted first.
select_first_logs(table) ==
    [k \in 1..(IF Len(table) < ReportLimit THEN Len(table) ELSE ReportLimit) |->
       [c \in ReportColumns |-> table[k][c]]]

\* SELECT date_posted, tipo_post, status, mes_relacionado, dia_cronograma FROM
\* tweets_log ORDER BY date_posted DESC LIMIT 10, src/tools/status.py lines 38-45.
select_last_logs(table) ==
    [k \in 1..(IF Len(table) < ReportLimit THEN Len(table) ELSE ReportLimit) |->
       [c \in ReportColumns |-> table[Len(table) + 1 - k][c]]]

LogIO == [fn |-> "tweets_log", table |-> << >>, report |-> << >>, ret |-> NoRet]

\* log_tweet, lines 132-150, with any of the records.
LogTweet ==
    /\ io.fn = "tweets_log"
    /\ Len(io.table) < MaxRows
    /\ \E rec \in LogRecords, ok \in BOOLEAN :
         io' = [io EXCEPT
                  !.table = IF ok THEN Append(@, InsertedRow(rec, Len(@) + 1)) ELSE @,
                  !.report = << >>,
                  !.ret = [op |-> "log_tweet", key |-> None, ok |-> ok, value |-> None]]
    /\ UNCHANGED << tweets_log, bot_state, twitter_api, twitter, api_mes, today, faults,
                    overlap, pc, arg, tick, retry, acked, last, boot >>

\* The status tool's list of the last logs, src/tools/status.py lines 37-48.
StatusReport ==
    /\ io.fn = "tweets_log"
    /\ io' = [io EXCEPT !.report = select_last_logs(io.table),
                        !.ret = [op |-> "status", key |-> None, ok |-> TRUE,
                                 value |-> None]]
    /\ UNCHANGED << tweets_log, bot_state, twitter_api, twitter, api_mes, today, faults,
                    overlap, pc, arg, tick, retry, acked, last, boot >>

StoreInit ==
    /\ tweets_log = EmptyBag
    /\ bot_state = [k \in {} |-> None]
    /\ twitter_api = None
    /\ twitter = EmptyBag
    /\ api_mes = "2025-09"
    /\ today = 1
    /\ faults = NoFaults
    /\ overlap = FALSE
    /\ pc = [p \in Procs |-> "idle"]
    /\ arg = [p \in Procs |-> NoArg]
    /\ tick = NoTick
    /\ retry = NoRetry
    /\ acked = {}
    /\ last = NoCall
    /\ boot = Booted
    /\ io \in {StateIO, LogIO}

StoreNext ==
    \/ SetBotState
    \/ GetBotState
    \/ LogTweet
    \/ StatusReport

SpecStore == StoreInit /\ [][StoreNext]_vars

\* ------------------------------------------------------------------ properties
\* The number of success rows of a slot, and whether it has one.
SuccessRows(log, s) == CountRows(log, s.tipo, s.mes, s.dia)

Posted(s) == SuccessRows(tweets_log, s) > 0

\* The stored publishing month, None without a row.
StoredMonth == IF StateKey \in DOMAIN bot_state THEN bot_state[StateKey] ELSE None

\* The step is an operation of the given kind, run on its own.
Ran(op) == last'.op = op

\* C1 as stated: in every reachable state the post log holds at most one
\* success record for each (content_type, related_month, schedule_day).
AtMostOneSuccessRecord == \A s \in Slots : SuccessRows(tweets_log, s) <= 1

\* C1, amended: while the operations run one at a time and no store operation
\* has failed, the post log holds at most one success record for each triple.
AtMostOneSuccessRecordSerial ==
    (~overlap /\ faults["store"] = 0) => AtMostOneSuccessRecord

\* C1's case: a forced execution for a posted slot was stopped by the gate.
GateStoppedForcedRepeat ==
    \E s \in Slots :
      /\ ~overlap /\ faults["store"] = 0
      /\ SuccessRows(tweets_log, s) = 1
      /\ last.op = "force" /\ last.mes = s.mes /\ last.called = {s.dia}
      /\ last.fetched = {} /\ last.sent = {}

AppendOnlyPostedBySuccess ==
    [][ /\ \A r \in BagToSet(tweets_log) : CopiesIn(r, tweets_log') >= CopiesIn(r, tweets_log)
        /\ \A s \in Slots :
             /\ SuccessRows(tweets_log', s) > SuccessRows(tweets_log, s)
                  => CopiesIn(s, twitter') > CopiesIn(s, twitter)
             /\ SuccessRows(tweets_log, s) > 0 => SuccessRows(tweets_log', s) > 0 ]_vars

\* C3's case: a catch-up tick ran over a due slot that was posted before and
\* left it alone, with an error row of an earlier failure still in the log.
PostedSlotLeftAlone ==
    \E s \in Slots :
      /\ Posted(s)
      /\ last.op = "catchup" /\ last.mes = s.mes
      /\ s.dia <= today /\ s.dia \notin last.called
      /\ \E r \in BagToSet(tweets_log) : r.status = "error"

\* C4 as stated: an operation whose create_tweet call failed, with no store
\* failure, appended exactly one error row with an error message for the slot.
ApiFailureIsRecorded ==
    [][ (Ran("force") /\ faults'["api"] > faults["api"] /\ faults'["store"] = faults["store"])
          => \E d \in last'.sent :
               tweets_log' = tweets_log (+) SetToBag({Row("error", TipoDe(d), last'.mes, d,
                                                          None, "error_msg")}) ]_vars

\* C5 as stated: a slot whose attempt failed in a catch-up tick gets no success
\* row from that tick, and the next tick for the same month attempts it again.
FailedSlotRetriedNextTick ==
    [][ (Ran("catchup") /\ last'.mes # None)
          => /\ \A d \in retry'.failed :
                  SuccessRows(tweets_log', Slot(d, last'.mes))
                    = SuccessRows(tweets_log, Slot(d, last'.mes))
             /\ last'.mes = retry.mes => retry.failed \subseteq last'.called ]_vars

\* C5, amended: a slot whose attempt failed in a catch-up tick gets no success
\* row from that tick, and the next tick that reads the same month attempts
\* it again if the entry is due on that tick's day and the slot still has no
\* success row.
FailedSlotRetriedWhileDue ==
    [][ (Ran("catchup") /\ last'.mes # None)
          => /\ \A d \in retry'.failed :
                  SuccessRows(tweets_log', Slot(d, last'.mes))
                    = SuccessRows(tweets_log, Slot(d, last'.mes))
             /\ last'.mes = retry.mes
                  => \A d \in retry.failed :
                       (d <= today /\ ~Posted(Slot(d, retry.mes))) => d \in retry'.retried ]_vars

\* C5's case: a tick attempted again a slot that failed in the tick before, and
\* the slot's failure left an error row and no success row at the time.
FailedSlotRetried ==
    \E d \in retry.retried :
      /\ last.op = "catchup" /\ last.mes = retry.mes
      /\ d \in last.sent
      /\ \E r \in BagToSet(tweets_log) :
           r.status = "error" /\ r.dia_cronograma = d /\ r.mes_relacionado = retry.mes

\* C6: with a client, and the stored month and the day of month fixed from some
\* point on, ticks that keep firing get every entry whose day is at most
\* today's posted for that month (the environment's failures are finitely many).
DueEntriesEventuallyPosted ==
    \A m \in Months, D \in 1..MaxDay :
      <>[](twitter_api # None /\ StoredMonth = m /\ today = D)
        => <>[](\A d \in ScheduleDays : d <= D => Posted(Slot(d, m)))

\* C6's case: after a failed attempt, a tick left every due entry of the
\* stored month posted.
AllDuePostedAfterFailure ==
    /\ twitter_api # None /\ StoredMonth # None
    /\ faults["api"] + faults["backend"] > 0
    /\ last.op = "catchup" /\ last.mes = StoredMonth /\ last.sent # {}
    /\ \A d \in ScheduleDays : d <= today => Posted(Slot(d, StoredMonth))

\* C7: a catch-up tick run while no month is stored calls nothing (no
\* execute_scheduled_post, no backend fetch, no create_tweet) and writes
\* neither the post log nor the bot state.
TickWithoutMonthDoesNothing ==
    [][ (Ran("catchup") /\ StateKey \notin DOMAIN bot_state)
          => /\ last'.called = {} /\ last'.fetched = {} /\ last'.sent = {}
             /\ UNCHANGED << tweets_log, twitter, bot_state >> ]_vars

\* C7's case: a tick has run with a client and no stored month.
TickRanWithoutMonth ==
    /\ last.op = "catchup" /\ StateKey \notin DOMAIN bot_state
    /\ twitter_api # None /\ faults["store"] = 0

\* C8: a catch-up tick on day D for the month it read attempts every entry with
\* day <= D that has no success row for the month, attempts no other entry, and
\* for an entry with day > D fetches nothing, publishes nothing and records
\* nothing.
TickConsidersDueEntries ==
    [][ (Ran("catchup") /\ last'.mes # None)
          => \A d \in ScheduleDays :
               LET s == Slot(d, last'.mes)
               IN  /\ (d <= today /\ SuccessRows(tweets_log, s) = 0) => d \in last'.called
                   /\ d > today
                        => /\ d \notin last'.called \cup last'.fetched \cup last'.sent
                           /\ CopiesIn(s, twitter') = CopiesIn(s, twitter)
                           /\ \A r \in BagToSet(tweets_log') :
                                (r.dia_cronograma = d /\ r.mes_relacionado = last'.mes)
                                  => CopiesIn(r, tweets_log') = CopiesIn(r, tweets_log) ]_vars

\* C8's case: a tick attempted the due entries and left alone a later entry
\* that has no success row.
TickLeftLaterEntry ==
    \E d \in ScheduleDays :
      /\ last.op = "catchup" /\ last.mes # None
      /\ d > today /\ ~Posted(Slot(d, last.mes))
      /\ last.sent # {} /\ \A c \in last.called : c <= today

\* C9 as stated: a rollover check that gets a backend month differing from the
\* stored month stores the backend month and attempts day 0 for it; with equal
\* months, or without a backend month, it changes nothing and attempts nothing.
RolloverByStoredMonth ==
    [][ Ran("rollover")
          => IF last'.mes # None /\ StoredMonth # api_mes
             THEN /\ StateKey \in DOMAIN bot_state' /\ bot_state'[StateKey] = api_mes
                  /\ last'.called = {0}
             ELSE /\ UNCHANGED << bot_state, tweets_log, twitter >>
                  /\ last'.called = {} ]_vars

\* C9, amended: a rollover check that gets a backend month differing from the
\* stored month attempts day 0 for it and, when no store operation fails in the
\* check, stores it; with equal months it changes nothing and attempts nothing
\* when no store operation fails in the check; without a backend month it
\* changes nothing and attempts nothing.
RolloverByMonthRead ==
    [][ Ran("rollover")
          => LET sound == faults'["store"] = faults["store"]
             IN  /\ (last'.mes # None /\ StoredMonth # api_mes)
                      => /\ last'.mes = api_mes /\ last'.called = {0}
                         /\ sound => /\ StateKey \in DOMAIN bot_state'
                                     /\ bot_state'[StateKey] = api_mes
                 /\ ((last'.mes # None /\ StoredMonth = api_mes /\ sound) \/ last'.mes = None)
                      => /\ UNCHANGED << bot_state, tweets_log, twitter >>
                         /\ last'.called = {} ]_vars

\* C9's case: a rollover check stored the later month over the earlier one and
\* published its day-0 entry.
RolloverStoredAndPublished ==
    /\ last.op = "rollover" /\ last.mes = "2025-10" /\ StoredMonth = "2025-10"
    /\ last.called = {0} /\ last.sent = {0}
    /\ Posted(Slot(0, "2025-10")) /\ Posted(Slot(0, "2025-09"))
    /\ faults["store"] = 0

\* C10 as stated: each new value of the stored month is a later month than the
\* value it replaces.
StoredMonthOnlyAdvances ==
    [][ (StoredMonth # None /\ StoredMonth' # StoredMonth)
          => MonthOrd(StoredMonth') > MonthOrd(StoredMonth) ]_vars

\* C13: for every content type of the schedule, a content generation whose
\* requests all return null gives no text; and an execute_scheduled_post call
\* (forced, or of a rollover check) whose requests all give nothing usable calls
\* create_tweet for no day and writes no post record.
NoDataNoPost ==
    [][ /\ \A t \in PostTypes :
             ~generate_content_for_post_type(t, [i \in 1..Fetches(t) |-> "null"])
        /\ \A d \in ScheduleDays :
             ((Ran("force") \/ Ran("rollover")) /\ last'.fetched = {d}
                /\ faults'["backend"] - faults["backend"] >= Fetches(TipoDe(d)))
               => /\ last'.sent = {}
                  /\ tweets_log' = tweets_log /\ twitter' = twitter ]_vars

\* C13's case: a forced execution with a client fetched for an unposted slot,
\* got nothing usable, and left the log and the posts empty.
ForcedWithoutData ==
    /\ twitter_api # None /\ faults["backend"] > 0
    /\ last.op = "force" /\ last.fetched # {} /\ last.sent = {}
    /\ tweets_log = EmptyBag /\ twitter = EmptyBag

\* C11: the bot-state table changes only in a step that runs verificar_nuevo_mes
\* while the stored month differs from the backend's month, and the change is
\* that the row current_publishing_month holds the backend's month; catch-up
\* ticks, forced executions of execute_scheduled_post (send_tweet included) and
\* status queries leave the table unchanged.
BotStateWrittenOnlyByRolloverCheck ==
    [][ /\ bot_state' # bot_state =>
             /\ IF overlap THEN pc["rollover"] = "compare" ELSE last'.checked
             /\ StoredMonth # api_mes
             /\ DOMAIN bot_state' = {StateKey}
             /\ bot_state'[StateKey] = api_mes
        /\ (Ran("catchup") \/ Ran("force") \/ Ran("status")) => bot_state' = bot_state
        /\ (overlap /\ pc["rollover"] # "compare") => bot_state' = bot_state ]_vars

\* A status query worked with the month a rollover check had stored.
StatusWithStoredMonth ==
    /\ last.op = "status" /\ last.mes # None
    /\ DOMAIN bot_state = {StateKey} /\ bot_state[StateKey] = last.mes
\* C15: a /preview or /preview-all request, in every state, calls create_tweet
\* for no day, creates no post at the social-media API and appends no post record.
PreviewPublishesNothing ==
    [][ (Ran("preview") \/ Ran("preview_all")) =>
          /\ last'.sent = {}
          /\ twitter' = twitter
          /\ tweets_log' = tweets_log ]_vars
\* C12: whenever a forced execute_scheduled_post reaches send_tweet for a slot:
\* if the call creates a post at the social-media API, a success row carrying the
\* id the API assigned has been added (and True returned); and no way the call
\* can go returns False after creating a post.
PublishIsAtomic ==
    [][ \A d \in ScheduleDays, m \in Months :
          (Ran("force") /\ last'.mes = m /\ last'.sent = {d}) =>
            LET row == Row("success", TipoDe(d), m, d,
                           << d, m, CopiesIn(Slot(d, m), twitter) + 1 >>, None)
            IN  /\ twitter' # twitter =>
                     CopiesIn(row, tweets_log') = CopiesIn(row, tweets_log) + 1
                /\ \A R \in send_tweet(Cur, d, m) :
                     /\ R.twitter # twitter => R.ret
                     /\ ~R.ret => R.twitter = twitter ]_vars
\* C14: a store error is answered with the conservative default and goes no
\* further: a lookup that fails makes check_post_exists False for every slot, a
\* state read that fails makes get_bot_state None, a failing log_tweet or
\* set_bot_state leaves its table as it was; an operation during which a store
\* call failed ends without an error leaving it; and a forced
\* execute_scheduled_post of a slot that has a success record, during which a
\* store call failed, took the slot for not posted and went on to fetch its data.
StoreErrorsDegrade ==
    [][ /\ \A s \in Slots : ~check_post_exists(tweets_log, s.tipo, s.mes, s.dia, FALSE)
        /\ get_bot_state(bot_state, StateKey, FALSE) = None
        /\ \A s \in Slots :
             log_tweet(tweets_log, Row("success", s.tipo, s.mes, s.dia, << s.dia, s.mes, 1 >>, None),
                       FALSE) = tweets_log
        /\ \A m \in Months : set_bot_state(bot_state, StateKey, m, FALSE) = bot_state
        /\ faults'["store"] > faults["store"] => ~last'.raised
        /\ \A s \in Slots :
             (/\ Ran("force") /\ last'.mes = s.mes /\ last'.called = {s.dia}
              /\ Posted(s) /\ faults'["store"] > faults["store"])
               => last'.fetched = {s.dia} ]_vars

\* A slot was posted, and a forced execution whose lookup failed posted it again.
PostedAgainAfterFailedLookup ==
    /\ last.op = "force" /\ faults["store"] > 0 /\ ~last.raised
    /\ \E s \in Slots : /\ last.mes = s.mes /\ last.sent = {s.dia}
                        /\ CopiesIn(s, twitter) = 2 /\ SuccessRows(tweets_log, s) = 2
FormatterTextAtMost280 ==
    (io.fn = "generate_content_for_post_type" /\ ~io.nulo) =>
      /\ Len(io.texto) <= 280
      /\ \A i \in 1..Len(io.texto) : io.texto[i] = io.tweet[i]

\* A formatter rendered more than 280 characters and returned a text.
OversizedRenderingReturned ==
    /\ io.fn = "generate_content_for_post_type" /\ ~io.nulo
    /\ Len(io.tweet) > 280 /\ Len(io.texto) = 280

\* C18: what send_tweet hands to create_tweet has at most 280 characters: a text
\* of more than 280 becomes its first 277 characters followed by "..." (280 in
\* all), a text of at most 280 is handed over as it is; and the tweet_text given
\* to log_tweet is the text handed to create_tweet.
SendTweetCutsTo280 ==
    (io.fn = "send_tweet" /\ io.called) =>
      /\ Len(io.submitted) <= 280
      /\ Len(io.text) > 280 =>
            /\ Len(io.submitted) = 280
            /\ \A i \in 1..277 : io.submitted[i] = io.text[i]
            /\ \A i \in 278..280 : io.submitted[i] = 0
      /\ Len(io.text) <= 280 => io.submitted = io.text
      /\ io.logged => io.tweet_text = io.submitted

\* send_tweet was given more than 280 characters, cut them and recorded the cut.
OversizedTextCut ==
    /\ io.fn = "send_tweet" /\ io.called /\ io.logged
    /\ Len(io.text) > 280 /\ io.submitted # io.text /\ io.tweet_text = io.submitted
\* C16: when one of the five credentials is not set or is blank (empty or only
\* blanks), main goes no further than the validation: the bot is never built, no
\* job is scheduled and no timer fires, the HTTP server is not started, no
\* rollover check or tick runs, and so no backend request and no publish attempt
\* is made and nothing is stored.
InvalidCredentialsHalt ==
    (\E var \in Credentials :
        \/ ~boot.creds[var].set
        \/ \A i \in 1..Len(boot.creds[var].value) : boot.creds[var].value[i] = " ")
      => /\ boot.pc \in {"main", "halted"}
         /\ ~boot.bot /\ ~boot.scheduler /\ ~boot.http
         /\ boot.checks = 0 /\ boot.fired = {}
         /\ twitter_api = None
         /\ last = NoCall /\ faults = NoFaults
         /\ tweets_log = EmptyBag /\ twitter = EmptyBag /\ bot_state = [k \in {} |-> None]

\* main has halted on a credential that is set but blank.
HaltedOnBlankCredential ==
    /\ boot.pc = "halted"
    /\ \A var \in Credentials : boot.creds[var].set
    /\ \E var \in Credentials : boot.creds[var].value = << " " >>

\* C19 as stated: one startup check is run, and no timer fires for the first
\* time before the startup check has returned.
InitialCheckDoneBeforeTimers ==
    /\ boot.checks <= 1
    /\ boot.fired # {} => boot.checks = 1
    /\ ~boot.overlapped

\* C19: exactly one startup check is run; it is begun after the two jobs are
\* scheduled and before either timer fires for the first time, and the timers
\* fire no earlier than 3 and 6 hours after the scheduler was started.
InitialCheckBegunBeforeTimers ==
    /\ boot.checks <= 1
    /\ boot.pc \in {"checking", "checked", "serving"} => boot.checks = 1 /\ boot.scheduler
    /\ boot.pc \notin {"checking", "checked", "serving"} => boot.checks = 0 /\ boot.fired = {}
    /\ \A job \in boot.fired : boot.now >= IntervalHours(job)

\* The catch-up timer fired while the startup check was still running.
TimerFiredDuringInitialCheck ==
    /\ boot.overlapped /\ boot.checks = 1
    /\ "verificar_posts" \in boot.fired
\* C30: however a catch-up tick goes from a state with a stored month, it visits
\* every schedule entry once, in ascending day order; it calls create_tweet at
\* most once per entry; and every due entry is either found posted or attempted
\* (execute_scheduled_post is called for it), also after an entry before it has
\* failed for want of content, on a publish failure or on an error.
TickVisitsEntriesInOrder ==
    (~overlap /\ StoredMonth # None) =>
      \A R \in Loop(1, [log |-> tweets_log, twitter |-> twitter, faults |-> faults,
                        acked |-> acked, trace |-> << >>], StoredMonth, today) :
        /\ Len(R.trace) = NumEntries
        /\ \A i, j \in 1..Len(R.trace) : i < j => R.trace[i].dia < R.trace[j].dia
        /\ \A i \in 1..Len(R.trace) :
             /\ R.trace[i].dia = Cronograma[i].dia
             /\ CopiesIn(Slot(R.trace[i].dia, StoredMonth), R.twitter)
                  <= CopiesIn(Slot(R.trace[i].dia, StoredMonth), twitter) + 1
             /\ IF DiaVencido(R.trace[i].dia, today)
                THEN R.trace[i].result \in {"posted", "exists", "no_content", "sent"}
                ELSE R.trace[i].result = "not_due"

\* A tick in which the attempt of an entry failed went on to attempt a later
\* entry, for which it fetched from the backend.
TickWentOnAfterFailedEntry ==
    /\ last.op = "catchup" /\ retry.mes = last.mes
    /\ \E d \in retry.failed : \E e \in last.fetched : d < e
\* C27: for the two comparison types, a content generation whose prior-month
\* request gave no data returns None, also when the request for the month itself
\* gave data, and execute_scheduled_post does not go on to send_tweet: nothing is
\* submitted and nothing recorded.
ComparisonNeedsPriorMonth ==
    [][ (/\ io # NoIO
         /\ io.fn = "generate_content_for_post_type"
         /\ io.tipo_post \in {"comparativa_aeropuertos", "comparativa_mensual"}
         /\ io.data[2] # "datos")
          => (io.nulo /\ io'.fn # "send_tweet") ]_vars

\* A monthly comparison had the month's data but no prior-month data, and gave None.
ComparisonWithoutPriorMonth ==
    /\ io # NoIO
    /\ io.fn = "generate_content_for_post_type" /\ io.tipo_post = "comparativa_mensual"
    /\ io.data[1] = "datos" /\ io.data[2] = "null" /\ io.nulo

\* C29: a text a formatter returns for a rendering of more than 280 characters
\* ends with the ellipsis "...", and so does what send_tweet then submits.
OversizedTextEndsWithEllipsis ==
    [][ (/\ io # NoIO
         /\ io.fn = "generate_content_for_post_type" /\ ~io.nulo
         /\ Len(io.tweet) > 280)
          => /\ SubSeq(io.texto, Len(io.texto) - 2, Len(io.texto)) = Ellipsis
             /\ (io'.fn = "send_tweet" /\ io'.called) =>
                   SubSeq(io'.submitted, Len(io'.submitted) - 2, Len(io'.submitted)) = Ellipsis ]_vars
\* A month written as four digits, "-", and a month number 1..12 of one or two digits.
IsMonthString(text) ==
    /\ Len(text) \in {6, 7}
    /\ AllDigits(SubSeq(text, 1, 4)) /\ text[5] = "-"
    /\ AllDigits(SubSeq(text, 6, Len(text)))
    /\ Number(SubSeq(text, 6, Len(text))) \in 1..12
    /\ (Len(text) = 6 => text[6] # "0")

\* The number of a month on the calendar line.
MonthOrdinal(text) == 12 * Number(SubSeq(text, 1, 4)) + Number(SubSeq(text, 6, Len(text)))

\* C28 as stated: for a valid "YYYY-MM" the prior month is the calendar month
\* before it, and for every other string it is absent and no comparison is made.
PrevMonthOnlyForYYYYMM ==
    (io # NoIO /\ io.fn = "_get_prev_month") =>
      IF IsMonthString(io.mes) /\ Len(io.mes) = 7
      THEN /\ io.prev_mes.ok /\ Len(io.prev_mes.text) = 7
           /\ MonthOrdinal(io.prev_mes.text) + 1 = MonthOrdinal(io.mes)
      ELSE ~io.prev_mes.ok /\ io.nulo /\ io.requests = << >>

\* C28, amended: for a four-digit year (1001 or later), "-", and a month 1..12
\* written with two digits or with one, the prior month is the calendar month
\* before it, written "YYYY-MM" (December of the year before for January); for
\* every other string it is absent, no request is made and no comparison generated.
PrevMonthIsCalendarPredecessor ==
    (io # NoIO /\ io.fn = "_get_prev_month") =>
      IF IsMonthString(io.mes)
      THEN /\ io.prev_mes.ok /\ Len(io.prev_mes.text) = 7
           /\ IsMonthString(io.prev_mes.text)
           /\ MonthOrdinal(io.prev_mes.text) + 1 = MonthOrdinal(io.mes)
           /\ io.requests = << io.mes, io.prev_mes.text >>
      ELSE ~io.prev_mes.ok /\ io.nulo /\ io.requests = << >>

\* The prior month of January 2026 was computed: December 2025.
PrevMonthOfJanuary ==
    /\ io # NoIO /\ io.fn = "_get_prev_month"
    /\ io.mes = << "2", "0", "2", "6", "-", "0", "1" >>
    /\ io.prev_mes = [ok |-> TRUE, text |-> << "2", "0", "2", "5", "-", "1", "2" >>]
\* The count of an entry of the airlines payload: the first of total_vuelos,
\* Cantidad, vuelos that is neither missing nor zero, else 0.
CountOf(item) ==
    IF Truthy(item.total_vuelos) THEN item.total_vuelos
    ELSE IF Truthy(item.Cantidad) THEN item.Cantidad
    ELSE IF Truthy(item.vuelos) THEN item.vuelos ELSE Num(0)

\* Entry i ranks before entry j: a larger count, or an equal one and earlier in the payload.
RanksBefore(data, i, j) ==
    \/ CountOf(data[i]).v > CountOf(data[j]).v
    \/ CountOf(data[i]).v = CountOf(data[j]).v /\ i < j

\* C25: for every payload of the top-airlines formatter, the entries whose count
\* is not a number or not positive are dropped; the labelled entries are the
\* first three of the rest by descending count, equal counts in input order,
\* labelled 1st, 2nd, 3rd in that order; the result is null exactly when the
\* payload is empty or nothing survives.
TopAirlinesRanking ==
    (io # NoIO /\ io.fn = "generar_top_aerolineas") =>
      LET data == io.data
          top == io.result.top
          kept == { i \in 1..Len(data) : CountOf(data[i]).t = "num" /\ CountOf(data[i]).v > 0 }
      IN  /\ io.result.nulo <=> kept = {}
          /\ Len(top) = IF Cardinality(kept) < 3 THEN Cardinality(kept) ELSE 3
          /\ \A k \in 1..Len(top) :
               /\ top[k].nombre \in kept
               /\ top[k].vuelos = CountOf(data[top[k].nombre]).v
               /\ top[k].medal = << "1st", "2nd", "3rd" >>[k]
               /\ \A l \in 1..Len(top) : k < l => RanksBefore(data, top[k].nombre, top[l].nombre)
               /\ \A i \in kept \ { top[l].nombre : l \in 1..Len(top) } :
                    RanksBefore(data, top[k].nombre, i)

\* A payload of four airlines was ranked: one dropped, two of the labelled ones tied.
RankedWithTieAndDrop ==
    /\ io # NoIO /\ io.fn = "generar_top_aerolineas"
    /\ Len(io.data) = 4 /\ Len(io.result.top) = 3
    /\ io.result.top[1].vuelos = io.result.top[2].vuelos
    /\ io.result.top[1].nombre > 1
    /\ \E i \in 1..4 : io.data[i].total_vuelos = Str

\* C26: every ranking with medal labels shows only entries of positive
\* magnitude, in descending order of magnitude.
RankingsFilteredAndSorted ==
    (io # NoIO /\ io.fn \in {"generar_top_aerolineas", "generar_destinos_internacionales"}) =>
      \A k \in 1..Len(io.result.top) :
        /\ io.result.top[k].vuelos > 0
        /\ \A l \in 1..Len(io.result.top) :
             k < l => io.result.top[k].vuelos >= io.result.top[l].vuelos
\* C23 as stated: the table holds at most one row per key, and get_bot_state(k)
\* returns the value of the last successful set_bot_state(k, v), or None if k
\* was never set.
GetReturnsLastSet ==
    (io.fn = "bot_state") =>
      /\ \A k \in StateKeys : Cardinality({ r \in io.rows : r.key = k }) <= 1
      /\ io.ret.op = "get" =>
           io.ret.value = IF io.ret.key \in DOMAIN io.written
                          THEN io.written[io.ret.key] ELSE None

\* C23, amended: the table holds at most one row per key; a get_bot_state whose
\* query does not fail returns the value of the last successful set_bot_state of
\* the key, or None if the key was never set, and one whose query fails returns
\* None; the table is the mapping key -> value the engine works with.
UpsertOneRowPerKey ==
    (io.fn = "bot_state") =>
      /\ \A k \in StateKeys : Cardinality({ r \in io.rows : r.key = k }) <= 1
      /\ (io.ret.op = "get" /\ io.ret.ok) =>
           io.ret.value = IF io.ret.key \in DOMAIN io.written
                          THEN io.written[io.ret.key] ELSE None
      /\ (io.ret.op = "get" /\ ~io.ret.ok) => io.ret.value = None
      /\ DOMAIN bot_state = { r.key : r \in io.rows }
      /\ \A r \in io.rows : bot_state[r.key] = r.value

\* A key whose row had been replaced was read, with another key in the table.
ReadAfterReplace ==
    /\ io.fn = "bot_state"
    /\ io.ret.op = "get" /\ io.ret.ok /\ io.ret.key \in io.replaced
    /\ io.ret.value = io.written[io.ret.key]
    /\ Cardinality(io.rows) = 2

DebugOnlyWhitelisted ==
    (io.fn = "http" /\ io.route = "/debug") =>
      /\ io.requests # << >> => (io.endpoint \in allowed /\ io.requests = << io.endpoint >>)
      /\ io.endpoint \notin allowed =>
           /\ io.requests = << >>
           /\ io.code = 400 /\ io.json /\ io.ok = "false"
           /\ last.fetched = {} /\ ~last.raised

\* /debug was asked for an endpoint that is not on the whitelist and refused.
DebugRefusedEndpoint ==
    /\ io.fn = "http" /\ io.route = "/debug"
    /\ io.endpoint = "/vuelos/mapa/red-aerolinea/AR"
    /\ io.code = 400 /\ io.requests = << >>

\* C24: every response of /status, /force-next, /force, /preview, /preview-all
\* and /debug is a JSON object with an explicit success flag.
EveryResponseHasSuccessFlag ==
    (io.fn = "http") => (io.json /\ "ok" \in io.keys /\ io.ok \in {"true", "false"})
\* C31: while the operations run one at a time and no store operation has
\* failed, at most one post has been created at the social-media API for each
\* (content type, month, day) slot, whatever ticks, rollover checks and forced
\* executions have run.
AtMostOnePostPerSlot ==
    (~overlap /\ faults["store"] = 0) => \A s \in Slots : CopiesIn(s, twitter) <= 1

\* A rollover check came back to a month whose summary was posted: its
\* execute_scheduled_post call for day 0 created no second post.
RolloverRepeatStopped ==
    /\ ~overlap /\ Total(faults) = 0
    /\ last.op = "rollover" /\ last.called = {0} /\ last.sent = {}
    /\ CopiesIn(Slot(0, last.mes), twitter) = 1
\* C32 as stated: a /force or /force-next request whose execute_scheduled_post
\* call is for a slot that has a success record answers success, fetches
\* nothing, calls create_tweet for nothing and appends no record.
ForcedPostedSlotLeftAlone ==
    [][ \A d \in ScheduleDays, m \in Months :
          (/\ io'.fn = "http" /\ io'.route \in {"/force", "/force-next"}
           /\ io'.code = 200
           /\ last'.called = {d} /\ last'.mes = m
           /\ Posted(Slot(d, m)))
            => /\ io'.ok = "true"
               /\ last'.fetched = {} /\ last'.sent = {}
               /\ tweets_log' = tweets_log /\ twitter' = twitter ]_vars

\* C32, amended: a /force or /force-next request in which no store operation
\* fails, and whose execute_scheduled_post call is for a slot that has a success
\* record, answers success, fetches nothing, calls create_tweet for nothing and
\* appends no record.
ForcedPostedSlotLeftAloneWhenFound ==
    [][ \A d \in ScheduleDays, m \in Months :
          (/\ io'.fn = "http" /\ io'.route \in {"/force", "/force-next"}
           /\ io'.code = 200
           /\ last'.called = {d} /\ last'.mes = m
           /\ Posted(Slot(d, m))
           /\ faults'["store"] = faults["store"])
            => /\ io'.ok = "true"
               /\ last'.fetched = {} /\ last'.sent = {}
               /\ tweets_log' = tweets_log /\ twitter' = twitter ]_vars

\* /force for a posted slot answered ok without a fetch or a post.
ForceAnsweredOkForPostedSlot ==
    /\ io.fn = "http" /\ io.route = "/force" /\ io.code = 200 /\ io.ok = "true"
    /\ last.op = "force" /\ last.called = {2} /\ last.fetched = {} /\ last.sent = {}
    /\ Posted(Slot(2, io.mes)) /\ faults["store"] = 0
\* The days of the schedule entries that are due today and have no success
\* record for the stored month.
DuePending ==
    IF StoredMonth = None THEN {}
    ELSE { d \in ScheduleDays : d <= today /\ ~Posted(Slot(d, StoredMonth)) }

\* The days of a list are exactly those of a set, in ascending order.
AscendingListOf(list, days) ==
    /\ { list[i] : i \in 1..Len(list) } = days
    /\ \A i, j \in 1..Len(list) : i < j => list[i] < list[j]

\* The smallest day of a set, as a list of one day; empty for the empty set.
FirstOf(days) ==
    IF days = {} THEN << >> ELSE << CHOOSE d \in days : \A e \in days : d <= e >>

\* C33 as stated: a /status request changes neither the store nor the posts;
\* its pending list holds exactly the due entries without a success record for
\* the stored month, in ascending day order; its next entry is the one of the
\* smallest day; and /force-next calls execute_scheduled_post for that entry
\* and for no other.
StatusListsDuePending ==
    [][ /\ (io'.fn = "http" /\ io'.route = "/status") =>
             /\ tweets_log' = tweets_log /\ bot_state' = bot_state /\ twitter' = twitter
             /\ AscendingListOf(io'.pending, DuePending)
             /\ io'.next = FirstOf(DuePending)
        /\ (io'.fn = "http" /\ io'.route = "/force-next") =>
             /\ bot_state' = bot_state
             /\ last'.called = { FirstOf(DuePending)[i] : i \in 1..Len(FirstOf(DuePending)) }
      ]_vars

\* C33, amended: a /status request changes neither the store nor the posts;
\* when none of its store reads fails, its pending list holds exactly the due
\* entries without a success record for the stored month, in ascending day
\* order, and its next entry is the one of the smallest day; a /force-next in
\* which no store operation fails calls execute_scheduled_post for that entry
\* and for no other, and for none (answering 400) when nothing is pending.
StatusListsDuePendingWhenRead ==
    [][ /\ (io'.fn = "http" /\ io'.route = "/status") =>
             /\ tweets_log' = tweets_log /\ bot_state' = bot_state /\ twitter' = twitter
             /\ faults'["store"] = faults["store"] =>
                  /\ AscendingListOf(io'.pending, DuePending)
                  /\ io'.next = FirstOf(DuePending)
                  /\ StoredMonth # None => io'.mes = StoredMonth
        /\ (io'.fn = "http" /\ io'.route = "/force-next") =>
             /\ bot_state' = bot_state
             /\ faults'["store"] = faults["store"] =>
                  /\ last'.called = { FirstOf(DuePending)[i] : i \in 1..Len(FirstOf(DuePending)) }
                  /\ DuePending = {} <=> io'.code = 400
                  /\ DuePending # {} => last'.mes = StoredMonth
      ]_vars

\* On day 2 a /status listed day 2 as the only pending entry and as the next,
\* day 0 being posted.
StatusListedSecondEntry ==
    /\ io.fn = "http" /\ io.route = "/status"
    /\ today = 2 /\ io.pending = << 2 >> /\ io.next = << 2 >>
    /\ io.mes = StoredMonth /\ Posted(Slot(0, io.mes))
\* C34 as stated: a rollover check whose day-0 attempt left no success record
\* leaves the new month stored, and a catch-up tick run while the stored month's
\* day-0 slot has no success record attempts that slot.
FailedSummaryRetriedByNextTick ==
    [][ /\ (/\ Ran("rollover") /\ last'.called = {0}
            /\ SuccessRows(tweets_log', Slot(0, last'.mes)) = 0)
             => (StateKey \in DOMAIN bot_state' /\ bot_state'[StateKey] = last'.mes)
        /\ (/\ Ran("catchup") /\ StoredMonth # None
            /\ ~Posted(Slot(0, StoredMonth)))
             => (last'.mes = StoredMonth /\ 0 \in last'.called) ]_vars

\* C34, amended: a rollover check in which no store operation fails and whose
\* day-0 attempt left no success record leaves the new month stored; and a
\* catch-up tick that reads the stored month while its day-0 slot has no success
\* record attempts that slot, on every day of the month.
FailedSummaryRetriedByTickThatReads ==
    [][ /\ (/\ Ran("rollover") /\ last'.called = {0}
            /\ SuccessRows(tweets_log', Slot(0, last'.mes)) = 0
            /\ faults'["store"] = faults["store"])
             => (StateKey \in DOMAIN bot_state' /\ bot_state'[StateKey] = last'.mes)
        /\ (/\ Ran("catchup") /\ StoredMonth # None
            /\ ~Posted(Slot(0, StoredMonth))
            /\ last'.mes # None)
             => (last'.mes = StoredMonth /\ 0 \in last'.called) ]_vars

\* Without a client the day-0 attempt of the check that stored the month
\* failed, and a tick has fetched for day 0 of that month again.
TickRetriedFailedSummary ==
    /\ twitter_api = None /\ Total(faults) = 0
    /\ last.op = "catchup" /\ last.mes = StoredMonth
    /\ 0 \in last.called /\ 0 \in last.fetched
    /\ ~Posted(Slot(0, last.mes))
\* C36 as stated: a rollover check that obtains a backend month while no month
\* is stored stores that month and attempts its day-0 entry; and a catch-up
\* tick run while no month is stored posts nothing.
FirstCheckStoresMonth ==
    [][ /\ (Ran("rollover") /\ last'.mes # None /\ StoredMonth = None)
             => /\ last'.mes = api_mes /\ last'.called = {0}
                /\ StateKey \in DOMAIN bot_state' /\ bot_state'[StateKey] = api_mes
        /\ (Ran("catchup") /\ StoredMonth = None)
             => (twitter' = twitter /\ tweets_log' = tweets_log) ]_vars

\* C36, amended: a rollover check that obtains a backend month while no month
\* is stored, or whose read of the stored month fails, attempts the day-0 entry
\* of that month and writes it as the stored month; the month is stored unless
\* that write fails. A catch-up tick run while no month is stored posts nothing.
FirstCheckStoresMonthUnlessWriteFails ==
    [][ /\ (/\ Ran("rollover") /\ last'.mes # None
            /\ \/ StoredMonth = None
               \/ StoredMonth = api_mes /\ faults'["store"] > faults["store"])
             => /\ last'.mes = api_mes /\ last'.called = {0}
                /\ (faults'["store"] = faults["store"] \/ StoredMonth = api_mes)
                     => (StateKey \in DOMAIN bot_state' /\ bot_state'[StateKey] = api_mes)
        /\ (Ran("catchup") /\ StoredMonth = None)
             => /\ twitter' = twitter /\ tweets_log' = tweets_log
                /\ last'.called = {} /\ last'.sent = {} ]_vars

\* The first check stored the backend month and posted its summary: with a
\* client and no failure, an earlier check would have left a post of its own.
FirstCheckStoredAndPosted ==
    /\ last.op = "rollover" /\ last.mes = api_mes /\ StoredMonth = api_mes
    /\ last.sent = {0}
    /\ twitter_api # None /\ Total(faults) = 0
    /\ BagCardinality(twitter) = 1

\* C35 as stated: once a rollover check has replaced the stored publishing
\* month m by another month, no catch-up tick that starts afterwards attempts a
\* slot of m: the slots a tick attempts are never slots of a replaced month.
ReplacedMonthNeverAttemptedAgain ==
    [][ (Ran("catchup") /\ last'.called # {}) => last'.mes \notin io.left ]_vars

\* C37: when the bot was built and the set-up of its client gave None, the
\* scheduler can still be started; and every operation run afterwards calls
\* create_tweet for no day and leaves the posts and the post records as they
\* were, and a catch-up tick that read the stored month attempts every due entry
\* of the schedule, each attempt returns failure, and each due slot is still
\* without a success record after the tick.
NoClientNothingPublished ==
    [][ (boot.bot /\ twitter_api = None)
          => /\ boot.pc = "constructed" => ENABLED StartScheduler
             /\ last'.sent = {}
             /\ twitter' = twitter /\ tweets_log' = tweets_log /\ acked' = acked
             /\ faults'["api"] = faults["api"]
             /\ (boot'.fired # boot.fired /\ Ran("catchup") /\ last'.mes # None)
                  => /\ last'.called = {d \in ScheduleDays : DiaVencido(d, today)}
                     /\ retry'.failed = last'.called
                     /\ \A d \in last'.called :
                          SuccessRows(tweets_log', Slot(d, last'.mes)) = 0 ]_vars

\* The timers run without a client: a tick has fetched the data of a due entry
\* and its attempt failed without a create_tweet call.
TickWithoutClientFailed ==
    /\ boot.bot /\ boot.scheduler /\ twitter_api = None
    /\ "verificar_posts" \in boot.fired
    /\ last.op = "catchup" /\ last.fetched # {} /\ last.sent = {}
    /\ retry.failed = last.called
    /\ twitter = EmptyBag /\ tweets_log = EmptyBag
====
